---- MODULE Spec2Model ----
(***************************************************************************)
(* Handle store and operation engine of mcp-data-handles.                  *)
(*                                                                         *)
(* The repository holds three programs that expose DataFrame tools:        *)
(*   "server"       src/mcp_handles_server/df_abstractions.py  (sqlite)    *)
(*   "abstractions" src/mcp_handles/df_abstractions.py         (in memory) *)
(*   "generic"      src/mcp_handles/pandas_generic.py          (in memory) *)
(* A behaviour of the model is a session of one of them (variable impl).   *)
(***************************************************************************)
EXTENDS Integers, Sequences, FiniteSets, TLC

\* ------------------------------------------------------------------ bounds
\* uuid4 values a session may draw (tokens are 1..MaxHandles)
MaxHandles == 2
\* combine_columns calls of a session that may rebind a handle
MaxCombine == 1
\* tool calls of the sqlite server that may be in flight at once
MaxWorkers == 2
\* handles a server process may add to a file that holds the seed tables
MaxDerived == 2

\* ------------------------------------------------------------------ values
\* A cell of a DataFrame: a tagged value (int64, float64, object/str, NaN).
I(n) == [t |-> "int", i |-> n, s |-> ""]
F(n) == [t |-> "float", i |-> n, s |-> ""]
S(x) == [t |-> "str", i |-> 0, s |-> x]
NaN == [t |-> "nan", i |-> 0, s |-> ""]

Digit(d) ==
    CASE d = 0 -> "0" [] d = 1 -> "1" [] d = 2 -> "2" [] d = 3 -> "3" [] d = 4 -> "4"
      [] d = 5 -> "5" [] d = 6 -> "6" [] d = 7 -> "7" [] d = 8 -> "8" [] d = 9 -> "9"

RECURSIVE NatStr(_)
NatStr(n) == IF n < 10 THEN Digit(n) ELSE NatStr(n \div 10) \o Digit(n % 10)

\* str(int)
IntStr(n) == IF n < 0 THEN "-" \o NatStr(0 - n) ELSE NatStr(n)

\* Series.astype(str) on one cell
astype_str(v) ==
    CASE v.t = "int" -> IntStr(v.i)
      [] v.t = "float" -> IntStr(v.i) \o ".0"
      [] v.t = "str" -> v.s
      [] v.t = "nan" -> "nan"

\* ------------------------------------------------------------------ tables
\* A pandas DataFrame: column labels, their dtypes, the row index and the rows.
DataFrame(cols, dts, idx, rws) ==
    [columns |-> cols, dtypes |-> dts, index |-> idx, rows |-> rws]

\* The value a field holds when there is no table to show.
NoFrame == DataFrame(<<>>, <<>>, <<>>, <<>>)

Range(seq) == {seq[k] : k \in 1..Len(seq)}

\* RangeIndex(0..n-1)
RangeIndex(n) == [k \in 1..n |-> k - 1]

\* `col in df` / `col in df.columns`
HasColumn(df, col) == col \in Range(df.columns)

\* position of a column label
ColPos(df, col) == CHOOSE k \in 1..Len(df.columns) : df.columns[k] = col

\* len(df)
NumRows(df) == Len(df.index)

\* df.shape
Shape(df) == <<Len(df.index), Len(df.columns)>>

\* a copy of the labels and dtypes without the rows
CopyLabels(df) == DataFrame(df.columns, df.dtypes, <<>>, <<>>)

\* DataFrame.copy()
Copy(df) == df

\* the sub-sequence of seq at the positions pos (a sequence of positions)
Pick(seq, pos) == [k \in 1..Len(pos) |-> seq[pos[k]]]

\* the positions at which a boolean mask is TRUE, in order
RECURSIVE WhereFrom(_, _)
WhereFrom(mask, k) ==
    IF k > Len(mask) THEN <<>>
    ELSE IF mask[k] THEN <<k>> \o WhereFrom(mask, k + 1)
    ELSE WhereFrom(mask, k + 1)

Where(mask) == WhereFrom(mask, 1)

\* the rows at positions pos, index labels kept
TakeRows(df, pos) ==
    DataFrame(df.columns, df.dtypes, Pick(df.index, pos), Pick(df.rows, pos))

\* the columns at positions pos, rows and index kept
TakeCols(df, pos) ==
    DataFrame(Pick(df.columns, pos), Pick(df.dtypes, pos), df.index,
              [r \in 1..Len(df.rows) |-> Pick(df.rows[r], pos)])

\* ------------------------------------------------------------------ seed catalog
users6 ==
    DataFrame(<<"user_id", "name", "city">>, <<"int64", "object", "object">>,
              RangeIndex(6),
              << <<I(1), S("Alice"), S("New York")>>,
                 <<I(2), S("Bob"), S("London")>>,
                 <<I(3), S("Charlie"), S("Paris")>>,
                 <<I(4), S("David"), S("London")>>,
                 <<I(5), S("Eve"), S("Tokyo")>>,
                 <<I(6), S("Alice2"), S("New York")>> >>)

users5 == TakeRows(users6, <<1, 2, 3, 4, 5>>)

orders ==
    DataFrame(<<"order_id", "user_id", "product", "amount">>,
              <<"int64", "int64", "object", "int64">>,
              RangeIndex(6),
              << <<I(101), I(1), S("Laptop"), I(1200)>>,
                 <<I(102), I(2), S("Keyboard"), I(75)>>,
                 <<I(103), I(1), S("Mouse"), I(25)>>,
                 <<I(104), I(3), S("Monitor"), I(300)>>,
                 <<I(105), I(5), S("Webcam"), I(50)>>,
                 <<I(106), I(2), S("Desk"), I(250)>> >>)

\* sample_db of each program (the server's users table has a sixth row)
sample_db(program) ==
    [users |-> IF program = "server" THEN users6 ELSE users5, orders |-> orders]

\* ------------------------------------------------------------------ pickle
\* pickle.dumps(df): the frame written out as one flat sequence of cells:
\* the number of columns, the labels, the dtypes, the number of rows, the index
\* labels, then the rows one after the other.
RECURSIVE Flatten(_)
Flatten(rws) == IF rws = <<>> THEN <<>> ELSE Head(rws) \o Flatten(Tail(rws))

pickle_dumps(df) ==
    <<I(Len(df.columns))>>
      \o [k \in 1..Len(df.columns) |-> S(df.columns[k])]
      \o [k \in 1..Len(df.dtypes) |-> S(df.dtypes[k])]
      \o <<I(Len(df.index))>>
      \o [k \in 1..Len(df.index) |-> I(df.index[k])]
      \o Flatten(df.rows)

\* a pickle.loads that reads the cells column by column
pickle_loads_by_column(blob) ==
    LET nc == blob[1].i
        nr == blob[2 * nc + 2].i
        base == 2 * nc + 2 + nr
    IN DataFrame([k \in 1..nc |-> blob[1 + k].s],
                 [k \in 1..nc |-> blob[1 + nc + k].s],
                 [k \in 1..nr |-> blob[2 * nc + 2 + k].i],
                 [r \in 1..nr |-> [c \in 1..nc |-> blob[base + (c - 1) * nr + r]]])

\* pickle.loads(blob): the frame read back from the flat sequence
pickle_loads(blob) ==
    LET nc == blob[1].i
        nr == blob[2 * nc + 2].i
        base == 2 * nc + 2 + nr
    IN DataFrame([k \in 1..nc |-> blob[1 + k].s],
                 [k \in 1..nc |-> blob[1 + nc + k].s],
                 [k \in 1..nr |-> blob[2 * nc + 2 + k].i],
                 [r \in 1..nr |-> [c \in 1..nc |-> blob[base + (r - 1) * nc + c]]])

\* ------------------------------------------------------------------ handle stores
\* A store (the sqlite table `handles`, or the dict data_handles) is a function
\* from the tokens it holds to what is bound to them.
EmptyStore == [h \in {} |-> NoFrame]

\* a write that empties the store first (DELETE FROM handles; INSERT)
UpsertAlone(store, handle, bound) ==
    [h \in {handle} |-> bound]

\* a write that leaves a token that is bound as it is (INSERT OR IGNORE)
UpsertIgnore(store, handle, bound) ==
    [h \in DOMAIN store \cup {handle} |-> IF h \in DOMAIN store THEN store[h] ELSE bound]

\* INSERT OR REPLACE INTO handles (handle, dataframe) VALUES (?, ?); commit
\* and dict item assignment data_handles[handle] = df
Upsert(store, handle, bound) ==
    [h \in DOMAIN store \cup {handle} |-> IF h = handle THEN bound ELSE store[h]]

\* a write that is cut short: the last row's cells never reach the file
insert_cut_short(db, handle, df) ==
    Upsert(db, handle,
           pickle_dumps([df EXCEPT !.rows = [r \in 1..Len(df.rows) |->
                                               IF r = Len(df.rows)
                                               THEN [c \in 1..Len(df.columns) |-> NaN]
                                               ELSE df.rows[r]]]))

\* save_handle's write: df_blob = pickle.dumps(df); INSERT OR REPLACE; commit
insert_or_replace(db, handle, df) == Upsert(db, handle, pickle_dumps(df))

\* a load_handle that answers a missing row with an empty frame
load_handle_or_empty(db, handle) ==
    IF handle \in DOMAIN db
    THEN [found |-> TRUE, df |-> pickle_loads(db[handle])]
    ELSE [found |-> TRUE, df |-> NoFrame]

\* load_handle(handle): the row's frame, or None (found = FALSE)
load_handle(db, handle) ==
    IF handle \in DOMAIN db
    THEN [found |-> TRUE, df |-> pickle_loads(db[handle])]
    ELSE [found |-> FALSE, df |-> NoFrame]

\* ------------------------------------------------------------------ pandas
\* The result of a pandas call: a frame, or an exception.
Frame(df) == [raised |-> FALSE, df |-> df]
Raised == [raised |-> TRUE, df |-> NoFrame]

\* one column as a sequence of cells
Column(df, col) == LET c == ColPos(df, col) IN [r \in 1..Len(df.rows) |-> df.rows[r][c]]

\* df[label] = cells: replaces the column when the label exists, else appends it
SetColumn(df, label, cells, dtype) ==
    IF HasColumn(df, label)
    THEN LET c == ColPos(df, label)
         IN DataFrame(df.columns, [df.dtypes EXCEPT ![c] = dtype], df.index,
                      [r \in 1..Len(df.rows) |-> [df.rows[r] EXCEPT ![c] = cells[r]]])
    ELSE DataFrame(Append(df.columns, label), Append(df.dtypes, dtype), df.index,
                   [r \in 1..Len(df.rows) |-> Append(df.rows[r], cells[r])])

\* df[new] = df[c1].astype(str) + sep + df[c2].astype(str)
\* sep is a cell: S(" ") is the string " "; a sep that is no string makes the
\* concatenation raise TypeError as soon as there is a row to concatenate.
CombineFrame(df, c1, c2, new, sep) ==
    IF sep.t # "str" /\ NumRows(df) > 0 THEN Raised
    ELSE LET a == Column(df, c1)
             b == Column(df, c2)
             cells == [r \in 1..Len(df.rows) |->
                          S(astype_str(a[r]) \o sep.s \o astype_str(b[r]))]
         IN Frame(SetColumn(df, new, cells, "object"))

\* a check that stops at the first missing column
MissingColsFirst(df, columns) ==
    LET pos == Where([k \in 1..Len(columns) |-> ~HasColumn(df, columns[k])])
    IN IF pos = <<>> THEN <<>> ELSE <<columns[pos[1]]>>

\* [col for col in columns if col not in df.columns]
MissingCols(df, columns) ==
    Pick(columns, Where([k \in 1..Len(columns) |-> ~HasColumn(df, columns[k])]))

\* df[columns] for a list of labels that are all present
SelectFrame(df, columns) ==
    TakeCols(df, [k \in 1..Len(columns) |-> ColPos(df, columns[k])])

\* a drop that hands back an empty frame, rows gone, once no column is left
DropFrameEmptied(df, columns) ==
    IF Range(df.columns) \subseteq Range(columns) THEN NoFrame
    ELSE TakeCols(df, Where([k \in 1..Len(df.columns) |-> df.columns[k] \notin Range(columns)]))

\* df.drop(columns=columns, errors='ignore')
DropFrame(df, columns) ==
    TakeCols(df, Where([k \in 1..Len(df.columns) |-> df.columns[k] \notin Range(columns)]))

\* df.drop_duplicates(): the first row of every group of equal rows, index kept
DropDuplicates(df) ==
    TakeRows(df, Where([r \in 1..Len(df.rows) |->
                           \A q \in 1..(r - 1) : df.rows[q] # df.rows[r]]))

\* a schema that carries num_rows on its first row only
SchemaFrameFirstRow(df) ==
    DataFrame(<<"column", "dtype", "num_rows">>, <<"object", "object", "int64">>,
              RangeIndex(Len(df.columns)),
              [k \in 1..Len(df.columns) |->
                  <<S(df.columns[k]), S(df.dtypes[k]), I(IF k = 1 THEN NumRows(df) ELSE 0)>>])

\* the frame get_schema builds: one row per column, num_rows on every row
SchemaFrame(df) ==
    DataFrame(<<"column", "dtype", "num_rows">>, <<"object", "object", "int64">>,
              RangeIndex(Len(df.columns)),
              [k \in 1..Len(df.columns) |->
                  <<S(df.columns[k]), S(df.dtypes[k]), I(NumRows(df))>>])

\* ---- ordering of cells (sort_values / groupby sort / merge sort)
\* Python's order on the strings of the seed tables
StrOrder ==
    <<"Alice", "Alice2", "Bob", "Charlie", "David", "Desk", "Eve", "Keyboard",
      "Laptop", "London", "Monitor", "Mouse", "New York", "Paris", "Tokyo", "Webcam">>

StrRank(x) ==
    IF x \in Range(StrOrder) THEN CHOOSE k \in 1..Len(StrOrder) : StrOrder[k] = x ELSE 0

\* a < b on two cells of one column; NaN sorts last
CellLess(a, b) ==
    IF a.t = "nan" THEN FALSE
    ELSE IF b.t = "nan" THEN TRUE
    ELSE IF a.t = "str" THEN StrRank(a.s) < StrRank(b.s)
    ELSE a.i < b.i

\* a == b on two cells (an int equals the float of the same value)
CellEq(a, b) == (a.t = "str") = (b.t = "str") /\ (a.t = "nan") = (b.t = "nan")
                /\ a.i = b.i /\ a.s = b.s

\* lexicographic order on key tuples of one length
RECURSIVE KeyLess(_, _)
KeyLess(a, b) ==
    IF a = <<>> THEN FALSE
    ELSE IF CellLess(Head(a), Head(b)) THEN TRUE
    ELSE IF CellLess(Head(b), Head(a)) THEN FALSE
    ELSE KeyLess(Tail(a), Tail(b))

\* stable sort of a sequence of [key, item] records by key
RECURSIVE InsertKeyed(_, _)
InsertKeyed(sq, x) ==
    IF sq = <<>> THEN <<x>>
    ELSE IF KeyLess(x.key, Head(sq).key) THEN <<x>> \o sq
    ELSE <<Head(sq)>> \o InsertKeyed(Tail(sq), x)

RECURSIVE SortKeyed(_)
SortKeyed(sq) ==
    IF sq = <<>> THEN <<>>
    ELSE InsertKeyed(SortKeyed(SubSeq(sq, 1, Len(sq) - 1)), sq[Len(sq)])

\* ---- DataFrame.query
\* The filter expressions of the sessions, parsed: column, operator, literal.
\* "amount >" does not parse (SyntaxError).
ParseExpr(expr) ==
    CASE expr = "user_id == 1" -> [ok |-> TRUE, col |-> "user_id", op |-> "==", val |-> I(1)]
      [] expr = "amount > 100" -> [ok |-> TRUE, col |-> "amount", op |-> ">", val |-> I(100)]
      [] expr = "city == 'London'" -> [ok |-> TRUE, col |-> "city", op |-> "==", val |-> S("London")]
      [] expr = "user_id == 0" -> [ok |-> TRUE, col |-> "user_id", op |-> "==", val |-> I(0)]
      [] OTHER -> [ok |-> FALSE, col |-> "", op |-> "", val |-> NaN]

\* df.query(expr): raises on a syntax error, on a name that is no column and on
\* an ordering comparison of strings with a number; keeps the rows (and their
\* index labels) where the comparison is true
QueryFrame(df, expr) ==
    LET e == ParseExpr(expr)
    IN IF ~e.ok \/ ~HasColumn(df, e.col) THEN Raised
       ELSE LET cells == Column(df, e.col)
                dt == df.dtypes[ColPos(df, e.col)]
            IN IF e.op = ">" /\ (dt = "object") # (e.val.t = "str") THEN Raised
               ELSE Frame(TakeRows(df, Where([r \in 1..Len(cells) |->
                        IF e.op = "==" THEN CellEq(cells[r], e.val)
                        ELSE cells[r].t # "nan" /\ CellLess(e.val, cells[r])])))

\* ---- pd.merge
valid_joins == {"left", "right", "outer", "inner"}

\* a column that holds NaN cannot stay int64: it becomes float64
Upcast(df) ==
    LET holes == [c \in 1..Len(df.columns) |->
                    df.dtypes[c] = "int64" /\ \E r \in 1..Len(df.rows) : df.rows[r][c].t = "nan"]
    IN DataFrame(df.columns,
                 [c \in 1..Len(df.columns) |-> IF holes[c] THEN "float64" ELSE df.dtypes[c]],
                 df.index,
                 [r \in 1..Len(df.rows) |-> [c \in 1..Len(df.columns) |->
                     IF holes[c] /\ df.rows[r][c].t = "int" THEN F(df.rows[r][c].i)
                     ELSE df.rows[r][c]]])

\* a pairing that keeps matched rows only, whatever keep says
RECURSIVE JoinPairsMatched(_, _, _, _)
JoinPairsMatched(a, b, k, keep) ==
    IF k > Len(a) THEN <<>>
    ELSE LET ms == Where([m \in 1..Len(b) |-> CellEq(a[k], b[m])])
         IN [j \in 1..Len(ms) |-> <<k, ms[j]>>] \o JoinPairsMatched(a, b, k + 1, keep)

\* for every row k of key column a, in order: the pairs <<k, m>> with the rows m
\* of key column b that have the same key, or <<k, 0>> when there is none and
\* unmatched rows are kept
RECURSIVE JoinPairs(_, _, _, _)
JoinPairs(a, b, k, keep) ==
    IF k > Len(a) THEN <<>>
    ELSE LET ms == Where([m \in 1..Len(b) |-> CellEq(a[k], b[m])])
             here == IF ms = <<>> THEN (IF keep THEN << <<k, 0>> >> ELSE <<>>)
                     ELSE [j \in 1..Len(ms) |-> <<k, ms[j]>>]
         IN here \o JoinPairs(a, b, k + 1, keep)

Swap(pairs) == [j \in 1..Len(pairs) |-> <<pairs[j][2], pairs[j][1]>>]

\* pd.merge(df1, df2, on=on, how=how), both frames holding the column `on`
MergeFrame(df1, df2, on, how) ==
    LET k1 == ColPos(df1, on)
        k2 == ColPos(df2, on)
        a == Column(df1, on)
        b == Column(df2, on)
        rest2 == Where([c \in 1..Len(df2.columns) |-> c # k2])
        others1 == Range(df1.columns) \ {on}
        others2 == Range(df2.columns) \ {on}
        labels1 == [c \in 1..Len(df1.columns) |->
                      IF c # k1 /\ df1.columns[c] \in others2
                      THEN df1.columns[c] \o "_x" ELSE df1.columns[c]]
        labels2 == [j \in 1..Len(rest2) |->
                      IF df2.columns[rest2[j]] \in others1
                      THEN df2.columns[rest2[j]] \o "_y" ELSE df2.columns[rest2[j]]]
        leftPairs == JoinPairs(a, b, 1, TRUE)
        rightOnly == Where([m \in 1..Len(b) |-> \A k \in 1..Len(a) : ~CellEq(a[k], b[m])])
        all == leftPairs \o [j \in 1..Len(rightOnly) |-> <<0, rightOnly[j]>>]
        keyOf(p) == IF p[1] > 0 THEN a[p[1]] ELSE b[p[2]]
        sorted == SortKeyed([j \in 1..Len(all) |-> [key |-> <<keyOf(all[j])>>, item |-> all[j]]])
        pairs == CASE how = "inner" -> JoinPairs(a, b, 1, FALSE)
                   [] how = "left" -> leftPairs
                   [] how = "right" -> Swap(JoinPairs(b, a, 1, TRUE))
                   [] how = "outer" -> [j \in 1..Len(sorted) |-> sorted[j].item]
        row(p) ==
            [c \in 1..Len(df1.columns) |->
                IF p[1] > 0 THEN df1.rows[p[1]][c]
                ELSE IF c = k1 THEN b[p[2]] ELSE NaN]
            \o [j \in 1..Len(rest2) |->
                IF p[2] > 0 THEN df2.rows[p[2]][rest2[j]] ELSE NaN]
    IN IF how \notin valid_joins THEN Raised
       ELSE IF (df1.dtypes[k1] = "object") # (df2.dtypes[k2] = "object") THEN Raised
       ELSE Frame(Upcast(DataFrame(labels1 \o labels2,
                                   df1.dtypes \o Pick(df2.dtypes, rest2),
                                   RangeIndex(Len(pairs)),
                                   [j \in 1..Len(pairs) |-> row(pairs[j])])))

\* ---- DataFrame.groupby(...).agg(...)
\* the aggregation names the model evaluates; any other name makes agg raise
agg_funcs == {"sum", "count", "min", "max"}

RECURSIVE SumInts(_)
SumInts(cells) == IF cells = <<>> THEN 0 ELSE Head(cells).i + SumInts(Tail(cells))

RECURSIVE ConcatStrs(_)
ConcatStrs(cells) == IF cells = <<>> THEN "" ELSE Head(cells).s \o ConcatStrs(Tail(cells))

\* one aggregate over the cells of a group (NaN cells are skipped)
Aggregate(func, dtype, cells) ==
    LET vals == Pick(cells, Where([k \in 1..Len(cells) |-> cells[k].t # "nan"]))
    IN CASE func = "count" -> I(Len(vals))
         [] func = "sum" ->
              IF dtype = "object" THEN S(ConcatStrs(vals))
              ELSE IF dtype = "float64" THEN F(SumInts(vals)) ELSE I(SumInts(vals))
         [] func = "min" ->
              IF vals = <<>> THEN NaN
              ELSE CHOOSE v \in Range(vals) : \A w \in Range(vals) : ~CellLess(w, v)
         [] func = "max" ->
              IF vals = <<>> THEN NaN
              ELSE CHOOSE v \in Range(vals) : \A w \in Range(vals) : ~CellLess(v, w)

\* df.groupby(group_columns, as_index=False).agg(agg_dict); agg_dict is the
\* sequence of its (column, function) items. All named columns are present.
GroupFrame(df, group_columns, agg_dict) ==
    LET gpos == [k \in 1..Len(group_columns) |-> ColPos(df, group_columns[k])]
        keys == [r \in 1..Len(df.rows) |-> Pick(df.rows[r], gpos)]
        valid(r) == \A k \in 1..Len(gpos) : keys[r][k].t # "nan"
        firsts == Where([r \in 1..Len(keys) |->
                           valid(r) /\ \A q \in 1..(r - 1) : keys[q] # keys[r]])
        sorted == SortKeyed([j \in 1..Len(firsts) |->
                                [key |-> keys[firsts[j]], item |-> firsts[j]]])
        members(j) == Where([r \in 1..Len(keys) |-> keys[r] = sorted[j].key])
        apos == [k \in 1..Len(agg_dict) |-> ColPos(df, agg_dict[k][1])]
        cell(j, k) == Aggregate(agg_dict[k][2], df.dtypes[apos[k]],
                                [m \in 1..Len(members(j)) |-> df.rows[members(j)[m]][apos[k]]])
    IN IF group_columns = <<>> \/ agg_dict = <<>> THEN Raised
       ELSE IF \E k \in 1..Len(agg_dict) : agg_dict[k][2] \notin agg_funcs THEN Raised
       ELSE IF \E k \in 1..Len(agg_dict) : agg_dict[k][1] \in Range(group_columns) THEN Raised
       ELSE Frame(Upcast(DataFrame(
                group_columns \o [k \in 1..Len(agg_dict) |-> agg_dict[k][1]],
                Pick(df.dtypes, gpos)
                  \o [k \in 1..Len(agg_dict) |->
                        IF agg_dict[k][2] = "count" THEN "int64" ELSE df.dtypes[apos[k]]],
                RangeIndex(Len(sorted)),
                [j \in 1..Len(sorted) |->
                    sorted[j].key \o [k \in 1..Len(agg_dict) |-> cell(j, k)]])))

\* df.head(n): the first n rows
HeadFrame(df, n) ==
    TakeRows(df, [k \in 1..(IF n < NumRows(df) THEN n ELSE NumRows(df)) |-> k])

\* df.tail(n): the last n rows
TailFrame(df, n) ==
    LET m == IF n < NumRows(df) THEN n ELSE NumRows(df)
    IN TakeRows(df, [k \in 1..m |-> NumRows(df) - m + k])

\* ------------------------------------------------------------------ state
VARIABLES
    impl,          \* the program of this session: "server", "abstractions" or "generic"
    catalog,       \* the process's dict sample_db: table name -> the DataFrame df it
                   \* holds and the tokens (held) bound to that very object
    handles_db,    \* the server's sqlite table handles: token -> pickled frame (durable)
    data_handles,  \* the in-memory programs' dict data_handles: token -> frame
    uuids,         \* how many uuid4 values have been drawn so far
    frames,        \* the server's calls in flight: each worker's local variables
    combines,      \* combine_columns calls that have saved a frame so far
    last           \* the tool call that has returned and whose result the transport
                   \* has not delivered yet (NoCall when there is none)

vars == <<impl, catalog, handles_db, data_handles, uuids, frames, combines, last>>

\* str(uuid.uuid4()): the n+1st value drawn differs from the n drawn before it
uuid4(n) == n + 1

\* ------------------------------------------------------------------ calls and results
\* A tool call and what it returned.  kind is "ok" (a success payload), "error"
\* (a returned error value) or "raise" (an exception left the tool function).
\* err abstracts the text of the error string:
\*   "HandleNotFound"   f"Error: Handle '{handle}' not found." and its variants
\*   "ColumnNotFound"   f"Error: Columns {missing_cols} not found." and variants
\*   "TableNotFound"    f"Error: Table '{table_name}' not found."
\*   "InvalidParameter" invalid join type / format / n
\*   "PredicateError"   f"Error in filtering rows: {e}"
\*   "GroupingError"    f"Error in grouping: {e}"
\*   "ExecutionError"   f"Error during code execution: ..." and the other
\*                      f"Error ...: {e}" strings built from a caught exception
\*   "AliasNotFound", "AliasNotFrame"  the two output-alias errors
\* err_handles and err_names are the tokens and the names the text contains.
Call(op, handles, cols, strs, outs, sep, n, fault) ==
    [op |-> op, handles |-> handles, cols |-> cols, strs |-> strs, outs |-> outs,
     sep |-> sep, n |-> n, fault |-> fault,
     kind |-> "none", err |-> "", err_handles |-> <<>>, err_names |-> <<>>,
     ret |-> <<>>, keys |-> <<>>, shape |-> <<0, 0>>, payload |-> NoFrame,
     saved |-> <<>>]

NoCall == Call("none", <<>>, <<>>, <<>>, <<>>, S(" "), 0, "none")

\* a returned handle (or, for execute_pandas_code, a dict keys -> handles);
\* saved lists the (handle, frame) pairs the call stored
Ok(call, keys, ret, saved) ==
    [call EXCEPT !.kind = "ok", !.keys = keys, !.ret = ret, !.saved = saved]

\* a rendering or a shape returned by a read-only tool
Shown(call, shape, payload) ==
    [call EXCEPT !.kind = "ok", !.shape = shape, !.payload = payload]

Err(call, err, err_handles, err_names, saved) ==
    [call EXCEPT !.kind = "error", !.err = err, !.err_handles = err_handles,
                 !.err_names = err_names, !.saved = saved]

Exc(call, saved) == [call EXCEPT !.kind = "raise", !.saved = saved]

\* the outcome of a handler: the store and the uuid count it leaves, and its result
Outcome(store, u, result) == [store |-> store, u |-> u, last |-> result]

\* ------------------------------------------------------------------ server: storage
\* sqlite3 may raise in any statement (disk, lock held by another process).
\* A call meets at most one fault: in its first load_handle ("load"), in the
\* INSERT of save_handle ("save": nothing is committed), or in save_handle's
\* verification read, after the commit ("verify").  The sessions draw the two
\* faults that differ in what they leave in the table.
Faults == {"none", "load", "verify"}

\* The sessions inject a fault only into the calls with an operation's first
\* arguments (usual = TRUE).
FaultsOf(usual) == IF usual THEN Faults ELSE {"none"}

\* save_handle(handle, df) as a whole: the INSERT OR REPLACE and commit, then
\* the verification read; raised tells whether an exception left it
save_handle(db, handle, df, fault) ==
    [db |-> IF fault = "save" THEN db ELSE insert_or_replace(db, handle, df),
     raised |-> fault \in {"save", "verify"},
     saved |-> IF fault = "save" THEN <<>> ELSE << [handle |-> handle, df |-> df] >>]

\* new_handle = str(uuid.uuid4()); save_handle(new_handle, df); return new_handle
MintSaved(db, u, call, df, fault) ==
    LET new_handle == uuid4(u)
        w == save_handle(db, new_handle, df, fault)
    IN Outcome(w.db, u + 1,
               IF w.raised THEN Exc(call, w.saved) ELSE Ok(call, <<>>, <<new_handle>>, w.saved))

\* ------------------------------------------------------------------ server: tools
\* get_db_tables(): sample_db.keys()
get_db_tables(db, u) ==
    Outcome(db, u, [Call("get_db_tables", <<>>, <<>>, <<>>, <<>>, S(" "), 0, "none")
                      EXCEPT !.kind = "ok", !.keys = <<"users", "orders">>])

\* query_database(table_name)
query_database(db, u, table_name, fault) ==
    LET call == Call("query_database", <<>>, <<>>, <<table_name>>, <<>>, S(" "), 0, fault)
    IN IF table_name \in DOMAIN sample_db("server")
       THEN MintSaved(db, u, call, Copy(sample_db("server")[table_name]), fault)
       ELSE Outcome(db, u, Err(call, "TableNotFound", <<>>, <<table_name>>, <<>>))

\* combine_columns, lines 104-109: the load and the two checks.  done tells that
\* the call ended there, with result; otherwise df is the frame it loaded.
combine_columns_load(db, call, handle, col1_name, col2_name) ==
    LET l == load_handle(db, handle)
    IN IF call.fault = "load" THEN [done |-> TRUE, result |-> Exc(call, <<>>), df |-> NoFrame]
       ELSE IF ~l.found
       THEN [done |-> TRUE, result |-> Err(call, "HandleNotFound", <<handle>>, <<>>, <<>>),
             df |-> NoFrame]
       ELSE IF ~HasColumn(l.df, col1_name) \/ ~HasColumn(l.df, col2_name)
       THEN [done |-> TRUE, result |-> Err(call, "ColumnNotFound", <<>>, <<>>, <<>>),
             df |-> NoFrame]
       ELSE [done |-> FALSE, result |-> call, df |-> l.df]

\* a combine_columns that saves its result under a new handle, as the other
\* tools do
combine_columns_mint(db, u, call, handle, df, col1_name, col2_name, new_col_name, sep) ==
    LET c == CombineFrame(df, col1_name, col2_name, new_col_name, sep)
    IN IF c.raised THEN Outcome(db, u, Exc(call, <<>>))
       ELSE MintSaved(db, u, call, c.df, call.fault)

\* combine_columns, lines 111-113: the arithmetic on the loaded frame, the save
\* under the same handle, the return
combine_columns_store(db, u, call, handle, df, col1_name, col2_name, new_col_name, sep) ==
    LET c == CombineFrame(df, col1_name, col2_name, new_col_name, sep)
        w == save_handle(db, handle, c.df, call.fault)
    IN IF c.raised THEN Outcome(db, u, Exc(call, <<>>))
       ELSE Outcome(w.db, u, IF w.raised THEN Exc(call, w.saved)
                             ELSE Ok(call, <<>>, <<handle>>, w.saved))

\* combine_columns(handle, col1_name, col2_name, new_col_name, sep) run alone
combine_columns(db, u, handle, col1_name, col2_name, new_col_name, sep, fault) ==
    LET call == Call("combine_columns", <<handle>>, <<>>,
                     <<col1_name, col2_name, new_col_name>>, <<>>, sep, 0, fault)
        l == combine_columns_load(db, call, handle, col1_name, col2_name)
    IN IF l.done THEN Outcome(db, u, l.result)
       ELSE combine_columns_store(db, u, call, handle, l.df,
                                  col1_name, col2_name, new_col_name, sep)

\* join_dataframes(handle1, handle2, on_column, how)
join_dataframes(db, u, handle1, handle2, on_column, how, fault) ==
    LET call == Call("join_dataframes", <<handle1, handle2>>, <<>>, <<on_column, how>>,
                     <<>>, S(" "), 0, fault)
        df1 == load_handle(db, handle1)
        df2 == load_handle(db, handle2)
    IN IF fault = "load" THEN Outcome(db, u, Exc(call, <<>>))
       ELSE IF ~df1.found \/ ~df2.found
       THEN Outcome(db, u, Err(call, "HandleNotFound", <<>>, <<>>, <<>>))
       ELSE IF ~HasColumn(df1.df, on_column) \/ ~HasColumn(df2.df, on_column)
       THEN Outcome(db, u, Err(call, "ColumnNotFound", <<>>, <<>>, <<>>))
       ELSE LET joined_df == MergeFrame(df1.df, df2.df, on_column, how)
            IN IF joined_df.raised THEN Outcome(db, u, Exc(call, <<>>))
               ELSE MintSaved(db, u, call, joined_df.df, fault)

\* the opening of every one-handle tool: load_handle, then the None check
Loaded(db, call, handle) ==
    LET l == load_handle(db, handle)
    IN IF call.fault = "load" THEN [done |-> TRUE, result |-> Exc(call, <<>>), df |-> NoFrame]
       ELSE IF ~l.found
       THEN [done |-> TRUE, result |-> Err(call, "HandleNotFound", <<handle>>, <<>>, <<>>),
             df |-> NoFrame]
       ELSE [done |-> FALSE, result |-> call, df |-> l.df]

\* select_columns(handle, columns)
select_columns(db, u, handle, columns, fault) ==
    LET call == Call("select_columns", <<handle>>, columns, <<>>, <<>>, S(" "), 0, fault)
        l == Loaded(db, call, handle)
        missing_cols == MissingCols(l.df, columns)
    IN IF l.done THEN Outcome(db, u, l.result)
       ELSE IF missing_cols # <<>>
       THEN Outcome(db, u, Err(call, "ColumnNotFound", <<>>, missing_cols, <<>>))
       ELSE MintSaved(db, u, call, Copy(SelectFrame(l.df, columns)), fault)

\* filter_rows(handle, filter_expr)
filter_rows(db, u, handle, filter_expr, fault) ==
    LET call == Call("filter_rows", <<handle>>, <<>>, <<filter_expr>>, <<>>, S(" "), 0, fault)
        l == Loaded(db, call, handle)
        filtered_df == QueryFrame(l.df, filter_expr)
    IN IF l.done THEN Outcome(db, u, l.result)
       ELSE IF filtered_df.raised
       THEN Outcome(db, u, Err(call, "PredicateError", <<>>, <<>>, <<>>))
       ELSE MintSaved(db, u, call, filtered_df.df, fault)

\* drop_columns(handle, columns)
drop_columns(db, u, handle, columns, fault) ==
    LET call == Call("drop_columns", <<handle>>, columns, <<>>, <<>>, S(" "), 0, fault)
        l == Loaded(db, call, handle)
    IN IF l.done THEN Outcome(db, u, l.result)
       ELSE MintSaved(db, u, call, DropFrame(l.df, columns), fault)

\* remove_duplicates(handle)
remove_duplicates(db, u, handle, fault) ==
    LET call == Call("remove_duplicates", <<handle>>, <<>>, <<>>, <<>>, S(" "), 0, fault)
        l == Loaded(db, call, handle)
    IN IF l.done THEN Outcome(db, u, l.result)
       ELSE MintSaved(db, u, call, DropDuplicates(l.df), fault)

\* distinct_rows(handle, columns); columns = <<>> stands for None and for []
distinct_rows(db, u, handle, columns, fault) ==
    LET call == Call("distinct_rows", <<handle>>, columns, <<>>, <<>>, S(" "), 0, fault)
        l == Loaded(db, call, handle)
        missing_cols == MissingCols(l.df, columns)
    IN IF l.done THEN Outcome(db, u, l.result)
       ELSE IF columns # <<>>
       THEN IF missing_cols # <<>>
            THEN Outcome(db, u, Err(call, "ColumnNotFound", <<>>, missing_cols, <<>>))
            ELSE MintSaved(db, u, call, DropDuplicates(SelectFrame(l.df, columns)), fault)
       ELSE MintSaved(db, u, call, DropDuplicates(l.df), fault)

\* get_schema(handle)
get_schema(db, u, handle, fault) ==
    LET call == Call("get_schema", <<handle>>, <<>>, <<>>, <<>>, S(" "), 0, fault)
        l == Loaded(db, call, handle)
    IN IF l.done THEN Outcome(db, u, l.result)
       ELSE MintSaved(db, u, call, SchemaFrame(l.df), fault)

\* the keys of agg_dict, a sequence of (column, function) items
AggKeys(agg_dict) == [k \in 1..Len(agg_dict) |-> agg_dict[k][1]]

\* the items of agg_dict written out flat, for the call record
AggFlat(agg_dict) == Flatten(agg_dict)

\* group_by(handle, group_columns, agg_dict): the try block holds the groupby,
\* the uuid4 and the save_handle, so an exception of any of them is returned as
\* an error string
group_by(db, u, handle, group_columns, agg_dict, fault) ==
    LET call == Call("group_by", <<handle>>, group_columns, AggFlat(agg_dict), <<>>,
                     S(" "), 0, fault)
        l == Loaded(db, call, handle)
        missing_group_cols == MissingCols(l.df, group_columns)
        missing_agg_cols == MissingCols(l.df, AggKeys(agg_dict))
        grouped_df == GroupFrame(l.df, group_columns, agg_dict)
        new_handle == uuid4(u)
        w == save_handle(db, new_handle, grouped_df.df, fault)
    IN IF l.done THEN Outcome(db, u, l.result)
       ELSE IF missing_group_cols # <<>>
       THEN Outcome(db, u, Err(call, "ColumnNotFound", <<>>, missing_group_cols, <<>>))
       ELSE IF missing_agg_cols # <<>>
       THEN Outcome(db, u, Err(call, "ColumnNotFound", <<>>, missing_agg_cols, <<>>))
       ELSE IF grouped_df.raised
       THEN Outcome(db, u, Err(call, "GroupingError", <<>>, <<>>, <<>>))
       ELSE Outcome(w.db, u + 1,
                    IF w.raised THEN Err(call, "GroupingError", <<>>, <<>>, w.saved)
                    ELSE Ok(call, <<>>, <<new_handle>>, w.saved))

\* ------------------------------------------------------------------ abstractions: tools
\* (src/mcp_handles/df_abstractions.py; dh is its dict data_handles)

\* MAX_ROWS of get_top_n_rows
MAX_ROWS == 1000
\* the n of df.head() when none is given
HEAD_ROWS == 5

\* query_database(table_name)
abs_query_database(dh, u, db, table_name) ==
    LET call == Call("query_database", <<>>, <<>>, <<table_name>>, <<>>, S(" "), 0, "none")
        df_copy == Copy(db[table_name].df)
        handle == uuid4(u)
    IN IF table_name \in DOMAIN db
       THEN Outcome(Upsert(dh, handle, df_copy), u + 1,
                    Ok(call, <<>>, <<handle>>, << [handle |-> handle, df |-> df_copy] >>))
       ELSE Outcome(dh, u, Err(call, "TableNotFound", <<>>, <<table_name>>, <<>>))

\* combine_columns(handle, col1_name, col2_name, new_col_name, sep): the frame
\* of the dict is changed in place and bound again under the same handle
abs_combine_columns(dh, u, handle, col1_name, col2_name, new_col_name, sep) ==
    LET call == Call("combine_columns", <<handle>>, <<>>,
                     <<col1_name, col2_name, new_col_name>>, <<>>, sep, 0, "none")
        df == dh[handle]
        c == CombineFrame(df, col1_name, col2_name, new_col_name, sep)
    IN IF handle \notin DOMAIN dh
       THEN Outcome(dh, u, Err(call, "HandleNotFound", <<handle>>, <<>>, <<>>))
       ELSE IF ~HasColumn(df, col1_name) \/ ~HasColumn(df, col2_name)
       THEN Outcome(dh, u, Err(call, "ColumnNotFound", <<handle>>,
                               <<col1_name, col2_name>>, <<>>))
       ELSE IF c.raised
       THEN Outcome(dh, u, Err(call, "ExecutionError", <<handle>>, <<>>, <<>>))
       ELSE Outcome(Upsert(dh, handle, c.df), u,
                    Ok(call, <<>>, <<handle>>, << [handle |-> handle, df |-> c.df] >>))

\* join_dataframes(handle1, handle2, on_column, how)
abs_join_dataframes(dh, u, handle1, handle2, on_column, how) ==
    LET call == Call("join_dataframes", <<handle1, handle2>>, <<>>, <<on_column, how>>,
                     <<>>, S(" "), 0, "none")
        df1 == dh[handle1]
        df2 == dh[handle2]
        joined_df == MergeFrame(df1, df2, on_column, how)
        new_handle == uuid4(u)
    IN IF handle1 \notin DOMAIN dh
       THEN Outcome(dh, u, Err(call, "HandleNotFound", <<handle1>>, <<>>, <<>>))
       ELSE IF handle2 \notin DOMAIN dh
       THEN Outcome(dh, u, Err(call, "HandleNotFound", <<handle2>>, <<>>, <<>>))
       ELSE IF ~HasColumn(df1, on_column) \/ ~HasColumn(df2, on_column)
       THEN Outcome(dh, u, Err(call, "ColumnNotFound", <<>>, <<on_column>>, <<>>))
       ELSE IF how \notin valid_joins
       THEN Outcome(dh, u, Err(call, "InvalidParameter", <<>>, <<how>>, <<>>))
       ELSE IF joined_df.raised
       THEN Outcome(dh, u, Err(call, "ExecutionError", <<>>, <<>>, <<>>))
       ELSE Outcome(Upsert(dh, new_handle, joined_df.df), u + 1,
                    Ok(call, <<>>, <<new_handle>>,
                       << [handle |-> new_handle, df |-> joined_df.df] >>))

\* get_shape(handle)
get_shape(dh, u, handle) ==
    LET call == Call("get_shape", <<handle>>, <<>>, <<>>, <<>>, S(" "), 0, "none")
    IN IF handle \notin DOMAIN dh
       THEN Outcome(dh, u, Err(call, "HandleNotFound", <<handle>>, <<>>, <<>>))
       ELSE Outcome(dh, u, Shown(call, Shape(dh[handle]), NoFrame))

\* get_head(handle): df.head().to_string()
get_head(dh, u, handle) ==
    LET call == Call("get_head", <<handle>>, <<>>, <<>>, <<>>, S(" "), 0, "none")
    IN IF handle \notin DOMAIN dh
       THEN Outcome(dh, u, Err(call, "HandleNotFound", <<handle>>, <<>>, <<>>))
       ELSE Outcome(dh, u, Shown(call, <<0, 0>>, HeadFrame(dh[handle], HEAD_ROWS)))

\* a get_top_n_rows that binds the rows it shows to the handle
get_top_n_rows_truncating(dh, u, handle, n) ==
    LET call == Call("get_top_n_rows", <<handle>>, <<>>, <<>>, <<>>, S(" "), n, "none")
        capped == IF n > MAX_ROWS THEN MAX_ROWS ELSE n
    IN IF handle \notin DOMAIN dh
       THEN Outcome(dh, u, Err(call, "HandleNotFound", <<handle>>, <<>>, <<>>))
       ELSE IF n <= 0
       THEN Outcome(dh, u, Err(call, "InvalidParameter", <<>>, <<"n">>, <<>>))
       ELSE Outcome(Upsert(dh, handle, HeadFrame(dh[handle], capped)), u,
                    Shown(call, <<0, 0>>, HeadFrame(dh[handle], capped)))

\* get_top_n_rows(handle, n): df.head(n).to_string()
get_top_n_rows(dh, u, handle, n) ==
    LET call == Call("get_top_n_rows", <<handle>>, <<>>, <<>>, <<>>, S(" "), n, "none")
        capped == IF n > MAX_ROWS THEN MAX_ROWS ELSE n
    IN IF handle \notin DOMAIN dh
       THEN Outcome(dh, u, Err(call, "HandleNotFound", <<handle>>, <<>>, <<>>))
       ELSE IF n <= 0
       THEN Outcome(dh, u, Err(call, "InvalidParameter", <<>>, <<"n">>, <<>>))
       ELSE Outcome(dh, u, Shown(call, <<0, 0>>, HeadFrame(dh[handle], capped)))

\* ------------------------------------------------------------------ generic: tools
\* (src/mcp_handles/pandas_generic.py; dh is its dict data_handles)

\* MAX_ROWS_FULL of materialize_dataframe
MAX_ROWS_FULL == 1000
\* the n materialize_dataframe falls back to
DEFAULT_N == 5

\* query_database(table_name)
gen_query_database(dh, u, db, table_name) ==
    LET call == Call("query_database", <<>>, <<>>, <<table_name>>, <<>>, S(" "), 0, "none")
        df_copy == Copy(db[table_name].df)
        handle == uuid4(u)
    IN IF table_name \in DOMAIN db
       THEN Outcome(Upsert(dh, handle, df_copy), u + 1,
                    Ok(call, <<>>, <<handle>>, << [handle |-> handle, df |-> df_copy] >>))
       ELSE Outcome(dh, u, Err(call, "TableNotFound", <<>>, <<table_name>>, <<>>))

\* The names the executed code may bind, and what a name is bound to in
\* local_vars: nothing, a DataFrame, or a value of another type.  obj tells
\* which object a bound DataFrame is: the one data_handles holds under the
\* token obj, or (obj = 0) an object that data_handles does not hold.
Names == {"df", "a", "b", "c"}
Unbound == [kind |-> "absent", df |-> NoFrame, obj |-> 0]
Bound(df) == [kind |-> "frame", df |-> df, obj |-> 0]
Other == [kind |-> "other", df |-> NoFrame, obj |-> 0]

\* exec(code, global_vars, local_vars) for the code strings of the sessions:
\* the local_vars it leaves, or raised when the code raises (a NameError when
\* it reads a name that is not bound)
Exec(code, local_vars) ==
    CASE code = "a = df.head(1); b = df" ->
           IF local_vars["df"].kind # "frame" THEN [raised |-> TRUE, local_vars |-> local_vars]
           ELSE [raised |-> FALSE,
                 local_vars |-> [local_vars EXCEPT !["a"] = Bound(HeadFrame(local_vars["df"].df, 1)),
                                                   !["b"] = local_vars["df"]]]
      [] code = "a = df; b = len(df)" ->
           IF local_vars["df"].kind # "frame" THEN [raised |-> TRUE, local_vars |-> local_vars]
           ELSE [raised |-> FALSE,
                 local_vars |-> [local_vars EXCEPT !["a"] = local_vars["df"], !["b"] = Other]]
      [] code = "df.drop(columns=['city'], inplace=True); a = df" ->
           IF local_vars["df"].kind # "frame" THEN [raised |-> TRUE, local_vars |-> local_vars]
           ELSE LET changed == [local_vars["df"] EXCEPT
                                   !.df = DropFrame(local_vars["df"].df, <<"city">>)]
                IN [raised |-> FALSE,
                    local_vars |-> [local_vars EXCEPT !["df"] = changed, !["a"] = changed]]
      [] code = "a = pd.DataFrame({'k': [1]})" ->
           [raised |-> FALSE,
            local_vars |-> [local_vars EXCEPT
                              !["a"] = Bound(DataFrame(<<"k">>, <<"int64">>, <<0>>, << <<I(1)>> >>))]]
      [] OTHER -> [raised |-> TRUE, local_vars |-> local_vars]

\* data_handles once the code has run: a frame the code changed in place is
\* changed under every token that holds that very object
WriteThrough(dh, local_vars) ==
    [h \in DOMAIN dh |->
        IF \E nm \in Names : local_vars[nm].kind = "frame" /\ local_vars[nm].obj = h
        THEN local_vars[CHOOSE nm \in Names :
                           local_vars[nm].kind = "frame" /\ local_vars[nm].obj = h].df
        ELSE dh[h]]

\* output_handles[alias] = new_handle on a dict held as (keys, values)
DictSet(d, key, value) ==
    IF key \in Range(d.keys)
    THEN [d EXCEPT !.values[CHOOSE k \in 1..Len(d.keys) : d.keys[k] = key] = value]
    ELSE [keys |-> Append(d.keys, key), values |-> Append(d.values, value)]

\* an output loop that leaves out an alias it cannot store and goes on
RECURSIVE ProcessOutputsSkipping(_, _, _, _, _, _, _)
ProcessOutputsSkipping(dh, u, call, local_vars, k, output_handles, saved) ==
    IF k > Len(call.outs)
    THEN Outcome(dh, u, Ok(call, output_handles.keys, output_handles.values, saved))
    ELSE LET alias == call.outs[k]
             new_handle == uuid4(u)
         IN IF alias \notin Names \/ local_vars[alias].kind # "frame"
            THEN ProcessOutputsSkipping(dh, u, call, local_vars, k + 1, output_handles, saved)
            ELSE LET result_df == local_vars[alias].df
                 IN ProcessOutputsSkipping(Upsert(dh, new_handle, result_df), u + 1, call,
                                           local_vars, k + 1,
                                           DictSet(output_handles, alias, new_handle),
                                           Append(saved, [handle |-> new_handle,
                                                          df |-> result_df]))

\* the loop over output_aliases, from position k on
RECURSIVE ProcessOutputs(_, _, _, _, _, _, _)
ProcessOutputs(dh, u, call, local_vars, k, output_handles, saved) ==
    IF k > Len(call.outs)
    THEN Outcome(dh, u, Ok(call, output_handles.keys, output_handles.values, saved))
    ELSE LET alias == call.outs[k]
             new_handle == uuid4(u)
         IN IF alias \notin Names \/ local_vars[alias].kind = "absent"
            THEN Outcome(dh, u, Err(call, "AliasNotFound", <<>>, <<alias>>, saved))
            ELSE IF local_vars[alias].kind # "frame"
            THEN Outcome(dh, u, Err(call, "AliasNotFrame", <<>>, <<alias>>, saved))
            ELSE LET result_df == local_vars[alias].df
                 IN ProcessOutputs(Upsert(dh, new_handle, result_df), u + 1, call,
                                   local_vars, k + 1,
                                   DictSet(output_handles, alias, new_handle),
                                   Append(saved, [handle |-> new_handle, df |-> result_df]))

\* the loop over input_handles.items(), from position k on: the first handle
\* that is not in the dict, or 0 when all are
RECURSIVE FirstMissingInput(_, _, _)
FirstMissingInput(dh, input_handles, k) ==
    IF k > Len(input_handles) THEN 0
    ELSE IF input_handles[k][2] \notin DOMAIN dh THEN k
    ELSE FirstMissingInput(dh, input_handles, k + 1)

\* an input loop that binds every alias to the stored frame itself
RECURSIVE LoadInputsShared(_, _, _, _)
LoadInputsShared(dh, input_handles, k, local_vars) ==
    IF k > Len(input_handles) THEN local_vars
    ELSE LoadInputsShared(dh, input_handles, k + 1,
                          [local_vars EXCEPT ![input_handles[k][1]] =
                              [kind |-> "frame", df |-> dh[input_handles[k][2]],
                               obj |-> input_handles[k][2]]])

\* local_vars after the input loop: every alias bound to a copy of its frame
\* (a later item of the same alias replaces an earlier one)
RECURSIVE LoadInputs(_, _, _, _)
LoadInputs(dh, input_handles, k, local_vars) ==
    IF k > Len(input_handles) THEN local_vars
    ELSE LoadInputs(dh, input_handles, k + 1,
                    [local_vars EXCEPT ![input_handles[k][1]] =
                                           Bound(Copy(dh[input_handles[k][2]]))])

\* execute_pandas_code(code, input_handles, output_aliases); input_handles is
\* the sequence of the dict's (alias, handle) items
execute_pandas_code(dh, u, code, input_handles, output_aliases) ==
    LET call == Call("execute_pandas_code",
                     [k \in 1..Len(input_handles) |-> input_handles[k][2]],
                     [k \in 1..Len(input_handles) |-> input_handles[k][1]],
                     <<code>>, output_aliases, S(" "), 0, "none")
        bad == FirstMissingInput(dh, input_handles, 1)
        x == Exec(code, LoadInputs(dh, input_handles, 1, [nm \in Names |-> Unbound]))
    IN IF bad # 0
       THEN Outcome(dh, u, Err(call, "HandleNotFound", <<input_handles[bad][2]>>,
                               <<input_handles[bad][1]>>, <<>>))
       ELSE IF x.raised
       THEN Outcome(WriteThrough(dh, x.local_vars), u,
                    Err(call, "ExecutionError", <<>>, <<>>, <<>>))
       ELSE ProcessOutputs(WriteThrough(dh, x.local_vars), u, call, x.local_vars, 1,
                           [keys |-> <<>>, values |-> <<>>], <<>>)

\* materialize_dataframe(handle, format, n); sample is the sequence of row
\* positions df.sample draws when the format is sample_string
materialize_dataframe(dh, u, handle, format, n, sample) ==
    LET call == Call("materialize_dataframe", <<handle>>, <<>>, <<format>>, <<>>, S(" "), n, "none")
        m == IF n <= 0 THEN DEFAULT_N ELSE n
        df == dh[handle]
    IN IF handle \notin DOMAIN dh
       THEN Outcome(dh, u, Err(call, "HandleNotFound", <<handle>>, <<>>, <<>>))
       ELSE CASE format = "head_string" -> Outcome(dh, u, Shown(call, <<0, 0>>, HeadFrame(df, m)))
              [] format = "tail_string" -> Outcome(dh, u, Shown(call, <<0, 0>>, TailFrame(df, m)))
              [] format = "sample_string" -> Outcome(dh, u, Shown(call, <<0, 0>>, TakeRows(df, sample)))
              [] format = "full_string" ->
                   Outcome(dh, u, Shown(call, <<0, 0>>,
                                         IF NumRows(df) > MAX_ROWS_FULL
                                         THEN HeadFrame(df, MAX_ROWS_FULL) ELSE df))
              [] format \in {"json_records", "json_split", "csv"} ->
                   Outcome(dh, u, Shown(call, <<0, 0>>, df))
              [] OTHER -> Outcome(dh, u, Err(call, "InvalidParameter", <<>>, <<format>>, <<>>))

\* get_shape(handle)
gen_get_shape(dh, u, handle) ==
    LET call == Call("get_shape", <<handle>>, <<>>, <<>>, <<>>, S(" "), 0, "none")
    IN IF handle \notin DOMAIN dh
       THEN Outcome(dh, u, Err(call, "HandleNotFound", <<handle>>, <<>>, <<>>))
       ELSE Outcome(dh, u, Shown(call, Shape(dh[handle]), NoFrame))

\* ------------------------------------------------------------------ sessions
\* The arguments the callers of a session pass.
\* (a token of 1..MaxHandles that uuid4 has not returned yet is an unknown handle)
HandleArgs == 1..MaxHandles
TableNames == {"users", "orders", "customers"}
CombineArgs ==
    {<<"user_id", "city", "full">>, <<"name", "city", "city">>, <<"name", "zip", "full">>}
Seps == {S(" "), I(0)}
JoinColumns == {"user_id", "zip"}
JoinKinds == {"inner", "left", "sideways"}
SelectArgs == {<<"city", "user_id">>, <<"zip", "name", "age">>}
FilterExprs == {"city == 'London'", "amount >"}
DropArgs == {<<"absent">>, <<"user_id", "name", "city">>}
DistinctArgs == {<<>>, <<"city">>, <<"zip", "city", "age">>}
GroupArgs ==
    {[by |-> <<"user_id">>, agg |-> << <<"amount", "sum">>, <<"order_id", "count">> >>],
     [by |-> <<"zip">>, agg |-> << <<"amount", "sum">> >>],
     [by |-> <<"user_id">>, agg |-> << <<"price", "sum">> >>],
     [by |-> <<"user_id">>, agg |-> << <<"amount", "bogus">> >>]}
TopNs == {0, 2, MAX_ROWS + 1}
MaterializeArgs ==
    {<<"head_string", 0>>, <<"head_string", 2>>, <<"tail_string", 2>>,
     <<"sample_string", 1>>, <<"full_string", 5>>, <<"json_records", 5>>,
     <<"json_split", 5>>, <<"csv", 5>>, <<"xml", 5>>}
Codes ==
    {"a = df.head(1); b = df", "a = df; b = len(df)", "a = pd.DataFrame({'k': [1]})",
     "df.drop(columns=['city'], inplace=True); a = df", "raise ValueError()"}
InputHandles ==
    {<<>>} \cup {<< <<"df", h>> >> : h \in HandleArgs}
           \cup {<< <<"df", h>>, <<"c", g>> >> : h \in HandleArgs, g \in HandleArgs}
OutputAliases == {<<"a">>, <<"a", "b">>, <<"a", "a">>, <<"c", "a">>}

\* the row positions DataFrame.sample(k) may draw from a frame of n rows
Samples(n, k) ==
    {f \in [1..k -> 1..n] : \A i \in 1..k : \A j \in 1..k : i # j => f[i] # f[j]}

\* the worker's frame when no call of it is in flight
Idle ==
    [pc |-> "idle", call |-> NoCall, df |-> NoFrame]

\* combine_columns calls that have written so far
History(result) ==
    /\ combines' = IF result.op = "combine_columns" /\ result.saved # <<>>
                   THEN combines + 1 ELSE combines

\* ---- the store of the running program
Store == IF impl = "server" THEN handles_db ELSE data_handles

\* the tokens bound in it
Tokens == DOMAIN Store

\* the frame a token resolves to
Resolve(h) == IF impl = "server" THEN load_handle(handles_db, h).df ELSE data_handles[h]

\* ---- the seed catalog of the running process
\* sample_db as the module builds it at import: no token holds its DataFrames
Catalog(program) ==
    [t \in DOMAIN sample_db(program) |-> [df |-> sample_db(program)[t], held |-> {}]]

\* a query_database that binds the catalog's DataFrame itself to the token
HeldByShared(cat, result) ==
    IF result.op = "query_database" /\ result.kind = "ok"
    THEN [cat EXCEPT ![result.strs[1]].held = @ \cup {result.ret[1]}]
    ELSE cat

\* the catalog after a tool call has returned result: query_database binds
\* sample_db[table_name].copy(), so no token holds a DataFrame of the catalog
HeldBy(cat, result) == cat

\* a DataFrame of the catalog that a token holds is one object with the
\* token's: what a call does to it in place shows in the catalog
Through(cat, store) ==
    [t \in DOMAIN cat |->
        IF cat[t].held \cap DOMAIN store # {}
        THEN [cat[t] EXCEPT !.df = store[CHOOSE h \in cat[t].held \cap DOMAIN store : TRUE]]
        ELSE cat[t]]

\* ---- initial state: the program has started, nothing is stored
Init ==
    /\ impl \in {"server", "abstractions", "generic"}
    /\ catalog = Catalog(impl)
    /\ handles_db = EmptyStore
    /\ data_handles = EmptyStore
    /\ uuids = 0
    /\ frames = [w \in 1..MaxWorkers |-> Idle]
    /\ combines = 0
    /\ last = NoCall

\* a tool call of the server runs and returns with outcome o
ServerReturn(o) ==
    /\ last = NoCall
    /\ o.u <= MaxHandles
    /\ handles_db' = o.store
    /\ uuids' = o.u
    /\ last' = o.last
    /\ History(o.last)
    /\ UNCHANGED <<impl, catalog, data_handles, frames>>

\* a tool call of an in-memory program runs and returns with outcome o
MemoryReturn(o) ==
    /\ last = NoCall
    /\ o.u <= MaxHandles
    /\ data_handles' = o.store
    /\ uuids' = o.u
    /\ last' = o.last
    /\ History(o.last)
    /\ catalog' = Through(HeldBy(catalog, o.last), o.store)
    /\ UNCHANGED <<impl, handles_db, frames>>

\* ---- the server's tools, one call at a time
GetDbTables ==
    /\ impl = "server"
    /\ ServerReturn(get_db_tables(handles_db, uuids))

QueryDatabase ==
    /\ impl = "server"
    /\ \E table_name \in TableNames :
       \E fault \in FaultsOf(table_name = "users") :
          ServerReturn(query_database(handles_db, uuids, table_name, fault))

CombineColumns ==
    /\ impl = "server"
    /\ combines < MaxCombine
    /\ \E handle \in HandleArgs, a \in CombineArgs, sep \in Seps :
       \E fault \in FaultsOf(a = <<"user_id", "city", "full">> /\ sep = S(" ")) :
          ServerReturn(combine_columns(handles_db, uuids, handle, a[1], a[2], a[3], sep, fault))

JoinDataframes ==
    /\ impl = "server"
    /\ \E handle1 \in HandleArgs, handle2 \in HandleArgs, on_column \in JoinColumns,
          how \in JoinKinds :
       \E fault \in FaultsOf(on_column = "user_id" /\ how = "inner") :
          ServerReturn(join_dataframes(handles_db, uuids, handle1, handle2, on_column, how, fault))

SelectColumns ==
    /\ impl = "server"
    /\ \E handle \in HandleArgs, columns \in SelectArgs :
       \E fault \in FaultsOf(columns = <<"city", "user_id">>) :
          ServerReturn(select_columns(handles_db, uuids, handle, columns, fault))

FilterRows ==
    /\ impl = "server"
    /\ \E handle \in HandleArgs, filter_expr \in FilterExprs :
       \E fault \in FaultsOf(filter_expr = "city == 'London'") :
          ServerReturn(filter_rows(handles_db, uuids, handle, filter_expr, fault))

DropColumns ==
    /\ impl = "server"
    /\ \E handle \in HandleArgs, columns \in DropArgs :
       \E fault \in FaultsOf(columns = <<"absent">>) :
          ServerReturn(drop_columns(handles_db, uuids, handle, columns, fault))

RemoveDuplicates ==
    /\ impl = "server"
    /\ \E handle \in HandleArgs, fault \in Faults :
          ServerReturn(remove_duplicates(handles_db, uuids, handle, fault))

DistinctRows ==
    /\ impl = "server"
    /\ \E handle \in HandleArgs, columns \in DistinctArgs :
       \E fault \in FaultsOf(columns = <<"city">>) :
          ServerReturn(distinct_rows(handles_db, uuids, handle, columns, fault))

GetSchema ==
    /\ impl = "server"
    /\ \E handle \in HandleArgs, fault \in Faults :
          ServerReturn(get_schema(handles_db, uuids, handle, fault))

GroupBy ==
    /\ impl = "server"
    /\ \E handle \in HandleArgs, g \in GroupArgs :
       \E fault \in FaultsOf(g.by = <<"user_id">> /\ g.agg[1] = <<"amount", "sum">>) :
          ServerReturn(group_by(handles_db, uuids, handle, g.by, g.agg, fault))

\* ---- the tools of the abstractions program
AbsQueryDatabase ==
    /\ impl = "abstractions"
    /\ \E table_name \in TableNames :
          MemoryReturn(abs_query_database(data_handles, uuids, catalog, table_name))

AbsCombineColumns ==
    /\ impl = "abstractions"
    /\ combines < MaxCombine
    /\ \E handle \in HandleArgs, a \in CombineArgs, sep \in Seps :
          MemoryReturn(abs_combine_columns(data_handles, uuids, handle, a[1], a[2], a[3], sep))

AbsJoinDataframes ==
    /\ impl = "abstractions"
    /\ \E handle1 \in HandleArgs, handle2 \in HandleArgs, on_column \in JoinColumns,
          how \in JoinKinds :
          MemoryReturn(abs_join_dataframes(data_handles, uuids, handle1, handle2, on_column, how))

GetShape ==
    /\ impl = "abstractions"
    /\ \E handle \in HandleArgs : MemoryReturn(get_shape(data_handles, uuids, handle))

GetHead ==
    /\ impl = "abstractions"
    /\ \E handle \in HandleArgs : MemoryReturn(get_head(data_handles, uuids, handle))

GetTopNRows ==
    /\ impl = "abstractions"
    /\ \E handle \in HandleArgs, n \in TopNs :
          MemoryReturn(get_top_n_rows(data_handles, uuids, handle, n))

\* ---- the tools of the generic program
GenQueryDatabase ==
    /\ impl = "generic"
    /\ \E table_name \in TableNames :
          MemoryReturn(gen_query_database(data_handles, uuids, catalog, table_name))

ExecutePandasCode ==
    /\ impl = "generic"
    /\ \E code \in Codes, input_handles \in InputHandles, output_aliases \in OutputAliases :
          MemoryReturn(execute_pandas_code(data_handles, uuids, code, input_handles,
                                           output_aliases))

MaterializeDataframe ==
    /\ impl = "generic"
    /\ \E handle \in HandleArgs, a \in MaterializeArgs :
          \E sample \in IF handle \in DOMAIN data_handles /\ a[1] = "sample_string"
                        THEN Samples(NumRows(data_handles[handle]),
                                     IF (IF a[2] <= 0 THEN DEFAULT_N ELSE a[2])
                                            < NumRows(data_handles[handle])
                                     THEN (IF a[2] <= 0 THEN DEFAULT_N ELSE a[2])
                                     ELSE NumRows(data_handles[handle]))
                        ELSE {<<>>} :
             MemoryReturn(materialize_dataframe(data_handles, uuids, handle, a[1], a[2], sample))

GenGetShape ==
    /\ impl = "generic"
    /\ \E handle \in HandleArgs : MemoryReturn(gen_get_shape(data_handles, uuids, handle))

\* ---- the process restarts: what it held in memory is gone, the file stays
Restart ==
    /\ last = NoCall
    /\ data_handles' = EmptyStore
    /\ frames' = [w \in 1..MaxWorkers |-> Idle]
    /\ last' = Call("restart", <<>>, <<>>, <<>>, <<>>, S(" "), 0, "none")
    /\ catalog' = Catalog(impl)
    /\ UNCHANGED <<impl, handles_db, uuids, combines>>

\* ---- the transport hands the result to the caller, who may call again
Deliver ==
    /\ last # NoCall
    /\ last' = NoCall
    /\ UNCHANGED <<impl, catalog, handles_db, data_handles, uuids, frames, combines>>

Next ==
    \/ GetDbTables \/ QueryDatabase \/ CombineColumns \/ JoinDataframes
    \/ SelectColumns \/ FilterRows \/ DropColumns \/ RemoveDuplicates
    \/ DistinctRows \/ GetSchema \/ GroupBy
    \/ AbsQueryDatabase \/ AbsCombineColumns \/ AbsJoinDataframes
    \/ GetShape \/ GetHead \/ GetTopNRows
    \/ GenQueryDatabase \/ ExecutePandasCode \/ MaterializeDataframe \/ GenGetShape
    \/ Restart
    \/ Deliver

Spec == Init /\ [][Next]_vars

\* ------------------------------------------------------------------ concurrent callers
\* Several processes work on one handles_db.sqlite at a time: server processes
\* started by different clients, and the client's own reads (fetch_dataframe).
\* Nothing in the code takes a lock around a tool call, so the calls of different
\* workers interleave at their sqlite statements, each of which is atomic.  Every
\* worker runs one combine_columns call: its load, then its store.
Workers == 1..MaxWorkers
ConcCombineArgs == {<<"name", "city", "full">>, <<"name", "city", "label">>}

\* fetch_dataframe(handle) of the client: the frame, or None
fetch_dataframe(db, handle) ==
    LET call == Call("fetch_dataframe", <<handle>>, <<>>, <<>>, <<>>, S(" "), 0, "none")
        l == load_handle(db, handle)
    IN IF l.found THEN Shown(call, Shape(l.df), l.df)
       ELSE [call EXCEPT !.kind = "ok", !.keys = <<"None">>]

InitConc ==
    /\ impl = "server"
    /\ catalog = Catalog(impl)
    /\ handles_db = EmptyStore
    /\ data_handles = EmptyStore
    /\ uuids = 0
    /\ frames = [w \in Workers |-> Idle]
    /\ combines = 0
    /\ last = NoCall

\* query_database by any process
ConcQueryDatabase ==
    \E table_name \in TableNames :
       LET o == query_database(handles_db, uuids, table_name, "none")
       IN /\ o.u <= MaxHandles
          /\ handles_db' = o.store
          /\ uuids' = o.u
          /\ last' = o.last
          /\ UNCHANGED <<impl, catalog, data_handles, frames, combines>>

\* worker w enters combine_columns and runs it up to the column check
ConcCombineLoad(w) ==
    /\ frames[w].pc = "idle"
    /\ \E handle \in HandleArgs, a \in ConcCombineArgs :
          LET call == Call("combine_columns", <<handle>>, <<>>, a, <<>>, S(" "), 0, "none")
              l == combine_columns_load(handles_db, call, handle, a[1], a[2])
          IN IF l.done
             THEN /\ frames' = [frames EXCEPT ![w] = [pc |-> "returned", call |-> l.result,
                                                      df |-> NoFrame]]
                  /\ last' = l.result
             ELSE /\ frames' = [frames EXCEPT ![w] = [pc |-> "loaded", call |-> call,
                                                      df |-> l.df]]
                  /\ last' = last
    /\ UNCHANGED <<impl, catalog, handles_db, data_handles, uuids, combines>>

\* worker w runs the rest of combine_columns on the frame it loaded
ConcCombineStore(w) ==
    /\ frames[w].pc = "loaded"
    /\ LET c == frames[w].call
           o == combine_columns_store(handles_db, uuids, c, c.handles[1], frames[w].df,
                                      c.strs[1], c.strs[2], c.strs[3], c.sep)
       IN /\ handles_db' = o.store
          /\ frames' = [frames EXCEPT ![w] = [pc |-> "returned", call |-> o.last,
                                              df |-> NoFrame]]
          /\ last' = o.last
    /\ UNCHANGED <<impl, catalog, data_handles, uuids, combines>>

\* the client reads a handle's frame from the file
ConcFetch ==
    /\ \E handle \in HandleArgs : last' = fetch_dataframe(handles_db, handle)
    /\ UNCHANGED <<impl, catalog, handles_db, data_handles, uuids, frames, combines>>

NextConc ==
    \/ ConcQueryDatabase
    \/ \E w \in Workers : ConcCombineLoad(w)
    \/ \E w \in Workers : ConcCombineStore(w)
    \/ ConcFetch

SpecConc == InitConc /\ [][NextConc]_vars

\* ------------------------------------------------------------------ derived tables
\* A server process started on a handles_db.sqlite that an earlier process has
\* left with the tables of the seed catalog bound (query_database of each name
\* of get_db_tables, in that order).  Its callers join and group what the file
\* holds, results of earlier joins and groupings included, a joined table
\* always with a seed table on the right.
SeedTables == <<"users", "orders">>
DataHandleArgs == 1..(Len(SeedTables) + MaxDerived)
DataGroupArgs ==
    {[by |-> <<"product">>, agg |-> << <<"user_id", "count">> >>],
     [by |-> <<"user_id">>, agg |-> << <<"amount", "sum">>, <<"order_id", "max">> >>],
     [by |-> <<"user_id", "city">>, agg |-> << <<"amount", "min">> >>]}

InitData ==
    /\ impl = "server"
    /\ catalog = Catalog(impl)
    /\ handles_db = [h \in 1..Len(SeedTables) |->
                        pickle_dumps(Copy(sample_db("server")[SeedTables[h]]))]
    /\ data_handles = EmptyStore
    /\ uuids = Len(SeedTables)
    /\ frames = [w \in Workers |-> Idle]
    /\ combines = 0
    /\ last = NoCall

\* a tool call of this process runs and returns with outcome o
DataReturn(o) ==
    /\ last = NoCall
    /\ uuids < Len(SeedTables) + MaxDerived
    /\ handles_db' = o.store
    /\ uuids' = o.u
    /\ last' = o.last
    /\ UNCHANGED <<impl, catalog, data_handles, frames, combines>>

DataJoinDataframes ==
    \E handle1 \in DataHandleArgs, handle2 \in DOMAIN SeedTables, how \in valid_joins :
       DataReturn(join_dataframes(handles_db, uuids, handle1, handle2, "user_id", how, "none"))

DataGroupBy ==
    \E handle \in DataHandleArgs, g \in DataGroupArgs :
       DataReturn(group_by(handles_db, uuids, handle, g.by, g.agg, "none"))

NextData ==
    \/ DataJoinDataframes
    \/ DataGroupBy
    \/ Deliver

SpecData == InitData /\ [][NextData]_vars

\* The same process when its callers filter, drop columns and ask for schemas:
\* tables without rows and tables without columns come from the first two.
DataFilterRows ==
    \E handle \in DataHandleArgs :
       DataReturn(filter_rows(handles_db, uuids, handle, "user_id == 0", "none"))

DataDropColumns ==
    \E handle \in DataHandleArgs :
       DataReturn(drop_columns(handles_db, uuids, handle, <<"user_id", "name", "city">>, "none"))

DataGetSchema ==
    \E handle \in DataHandleArgs :
       DataReturn(get_schema(handles_db, uuids, handle, "none"))

NextSchema ==
    \/ DataFilterRows
    \/ DataDropColumns
    \/ DataGetSchema
    \/ Deliver

SpecSchema == InitData /\ [][NextSchema]_vars

\* ------------------------------------------------------------------ properties
\* A step of Spec in which a tool call runs leads from last = NoCall to the
\* call's result in last'; the unprimed store is the store before the call.
ToolCall == last = NoCall /\ last' # NoCall /\ last'.op # "restart"

\* h is bound, and its binding reads back as a frame
Resolves(h) == h \in Tokens /\ (impl = "server" => load_handle(handles_db, h).found)

\* the frame h resolves to after the step
ResolveNext(h) == IF impl = "server" THEN load_handle(handles_db', h).df ELSE data_handles'[h]

\* the tools that return handles they have minted
MintOps ==
    {"query_database", "select_columns", "filter_rows", "drop_columns",
     "remove_duplicates", "distinct_rows", "get_schema", "group_by", "join_dataframes",
     "execute_pandas_code"}

\* C1: a tool call that returns an error leaves the handle store as it was
\* before the call: the same tokens, each bound to the same table.
C1_ErrorLeavesStore ==
    [][(ToolCall /\ last'.kind = "error") => Store' = Store]_vars

\* C2: a tool call that is given a token the store does not hold, and whose
\* read of the store raises nothing, returns a handle-not-found error and leaves
\* the store as it was; for join_dataframes with either token or both unknown.
C2_UnknownHandle ==
    [][(/\ ToolCall
        /\ last'.fault # "load"
        /\ \E k \in DOMAIN last'.handles : last'.handles[k] \notin Tokens)
       => (last'.kind = "error" /\ last'.err = "HandleNotFound" /\ Store' = Store)]_vars

\* C2, its case reached: join_dataframes has returned handle-not-found for a
\* known first and an unknown second token
C2_Witness ==
    /\ last.op = "join_dataframes"
    /\ last.err = "HandleNotFound"
    /\ last.handles[1] \in Tokens
    /\ last.handles[2] \notin Tokens

\* C3: a successful combine_columns(h, ...) returns h itself; the store holds
\* the same tokens after it as before, no token has been minted, and every token
\* other than h is bound to what it was bound to.
C3_CombineRebinds ==
    [][(ToolCall /\ last'.op = "combine_columns" /\ last'.kind = "ok")
       => (/\ last'.ret = last'.handles
           /\ Tokens' = Tokens
           /\ uuids' = uuids
           /\ \A g \in Tokens \ {last'.handles[1]} : Store'[g] = Store[g])]_vars

\* C3, its case reached: combine_columns has succeeded on one of two handles
\* and the new column is in the table of that handle
C3_Witness ==
    /\ last.op = "combine_columns"
    /\ last.kind = "ok"
    /\ Cardinality(Tokens) >= 2
    /\ HasColumn(Resolve(last.handles[1]), last.strs[3])

\* C4: a successful minting tool call returns tokens that differ from its input
\* tokens, from the tokens the store held and from each other, and the store
\* gains exactly one record per returned token.
C4_MintsFresh ==
    [][(ToolCall /\ last'.kind = "ok" /\ last'.op \in MintOps)
       => (/\ \A k \in DOMAIN last'.ret :
                 last'.ret[k] \notin Tokens /\ last'.ret[k] \notin Range(last'.handles)
           /\ \A j \in DOMAIN last'.ret : \A k \in DOMAIN last'.ret :
                 j # k => last'.ret[j] # last'.ret[k]
           /\ Tokens' = Tokens \cup Range(last'.ret)
           /\ Cardinality(Tokens') = Cardinality(Tokens) + Len(last'.ret))]_vars

\* C5: no tool call removes a record: a token that is bound before a tool call
\* (or a delivery) is bound after it and resolves to a table.
C5_Immortal ==
    [][last'.op # "restart" => \A h \in Tokens : Resolves(h)']_vars

\* C5, its case reached: a tool has minted a handle from another one, which is
\* still bound
C5_Witness ==
    /\ last.op = "drop_columns"
    /\ last.kind = "ok"
    /\ last.handles[1] \in Tokens
    /\ last.ret[1] \in Tokens \ {last.handles[1]}

\* C6: after a restart of the process every token that was bound resolves to
\* the table it was bound to when the process stopped.
C6_SurvivesRestart ==
    [][last'.op = "restart"
       => \A h \in Tokens : Resolves(h)' /\ Resolve(h)' = Resolve(h)]_vars

\* C7: right after a call has saved table T under token h (a create or a
\* rebind), h resolves to a table equal to T: labels, their order, dtypes, index
\* and cells.
C7_ReadAfterWrite ==
    \A k \in DOMAIN last.saved :
        /\ Resolves(last.saved[k].handle)
        /\ Resolve(last.saved[k].handle) = last.saved[k].df

\* C7, its case reached: the server has rebound a handle to a frame with a
\* new column, through save_handle and its pickle
C7_Witness ==
    /\ impl = "server"
    /\ last.op = "combine_columns"
    /\ last.saved # <<>>
    /\ HasColumn(last.saved[1].df, "full")
    /\ NumRows(last.saved[1].df) > 1

\* C8: when two combine_columns calls on one handle with different new column
\* names have run concurrently and both have returned success, the table bound
\* to the handle has both new columns.
C8_NoLostUpdate ==
    \A v \in Workers : \A w \in Workers :
        (/\ v # w
         /\ frames[v].pc = "returned" /\ frames[v].call.kind = "ok"
         /\ frames[w].pc = "returned" /\ frames[w].call.kind = "ok"
         /\ frames[v].call.handles = frames[w].call.handles
         /\ frames[v].call.strs[3] # frames[w].call.strs[3])
        => (/\ HasColumn(Resolve(frames[v].call.handles[1]), frames[v].call.strs[3])
            /\ HasColumn(Resolve(frames[v].call.handles[1]), frames[w].call.strs[3]))

\* C9: store writes are atomic per token, whatever overlaps: in every step a
\* token that was bound stays bound, and a binding that is new or has changed
\* reads back as exactly the whole table that the step's call saved under that
\* token; what a call's resolve hands it is the table bound at that moment.
C9_AtomicWrites ==
    [][/\ \A h \in DOMAIN handles_db : h \in DOMAIN handles_db'
       /\ \A h \in DOMAIN handles_db' :
             (h \notin DOMAIN handles_db \/ handles_db'[h] # handles_db[h])
             => \E k \in DOMAIN last'.saved :
                   /\ last'.saved[k].handle = h
                   /\ load_handle(handles_db', h) = [found |-> TRUE, df |-> last'.saved[k].df]
       /\ \A w \in Workers :
             (frames[w].pc = "idle" /\ frames'[w].pc = "loaded")
             => frames'[w].df = Resolve(frames'[w].call.handles[1])]_vars

\* C9, its case reached: a worker holds the table it resolved while another
\* worker's rebind of the same handle has completed
C9_Witness ==
    \E v \in Workers : \E w \in Workers :
        /\ frames[v].pc = "loaded"
        /\ frames[w].pc = "returned" /\ frames[w].call.kind = "ok"
        /\ frames[v].call.handles = frames[w].call.handles
        /\ Resolve(frames[v].call.handles[1]) # frames[v].df

\* C10: every tool call returns a success payload or an error value; no
\* exception leaves a tool function.
C10_NoException == last.kind # "raise"

\* C11: join_dataframes on two known handles returns a column-not-found error
\* when the join column is absent from the left or the right table, and an
\* invalid-parameter error when the join kind is none of inner, left, right,
\* outer; in both cases the store is left as it was.
C11_JoinErrors ==
    [][(/\ ToolCall
        /\ last'.op = "join_dataframes"
        /\ last'.fault = "none"
        /\ \A k \in 1..2 : last'.handles[k] \in Tokens)
       => LET df1 == Resolve(last'.handles[1])
              df2 == Resolve(last'.handles[2])
              on_column == last'.strs[1]
              how == last'.strs[2]
              absent == ~HasColumn(df1, on_column) \/ ~HasColumn(df2, on_column)
          IN /\ absent => (/\ last'.kind = "error" /\ last'.err = "ColumnNotFound"
                           /\ Store' = Store)
             /\ (~absent /\ how \notin {"inner", "left", "right", "outer"})
                   => (/\ last'.kind = "error" /\ last'.err = "InvalidParameter"
                       /\ Store' = Store)]_vars

\* C12: select_columns(h, cols) on a known handle with a name in cols that is
\* no column of h's table returns a column-not-found error that lists every
\* missing name of cols, each once per request, in request order, and leaves the
\* store as it was (no handle for the columns that do exist).
C12_SelectListsMissing ==
    [][(/\ ToolCall
        /\ last'.op = "select_columns"
        /\ last'.fault # "load"
        /\ last'.handles[1] \in Tokens
        /\ \E k \in DOMAIN last'.cols : ~HasColumn(Resolve(last'.handles[1]), last'.cols[k]))
       => LET df == Resolve(last'.handles[1])
              cols == last'.cols
              named == last'.err_names
          IN /\ last'.kind = "error" /\ last'.err = "ColumnNotFound"
             /\ Range(named) = {c \in Range(cols) : ~HasColumn(df, c)}
             /\ Len(named) = Cardinality({k \in DOMAIN cols : ~HasColumn(df, cols[k])})
             /\ \A i \in DOMAIN named : \A j \in DOMAIN named :
                   i < j => \E p \in DOMAIN cols : \E q \in DOMAIN cols :
                               p < q /\ cols[p] = named[i] /\ cols[q] = named[j]
             /\ Store' = Store
             /\ uuids' = uuids]_vars

\* C12, its case reached: select_columns has refused a request with two
\* missing names and one name that is a column
C12_Witness ==
    /\ last.op = "select_columns"
    /\ last.err = "ColumnNotFound"
    /\ Len(last.err_names) >= 2
    /\ \E k \in DOMAIN last.cols : HasColumn(Resolve(last.handles[1]), last.cols[k])

\* C13: an error names what is wrong: a handle-not-found error contains the
\* first token of the call that is not in the store, and a column-not-found
\* error contains names, each of them missing from a table of the call; for
\* combine_columns and join_dataframes it contains every missing column asked for.
C13_ErrorsName ==
    [][(ToolCall /\ last'.kind = "error")
       => LET hs == last'.handles
              unknown == Where([k \in DOMAIN hs |-> hs[k] \notin Tokens])
              asked == IF last'.op = "join_dataframes" THEN {last'.strs[1]}
                       ELSE IF last'.op = "combine_columns" THEN {last'.strs[1], last'.strs[2]}
                       ELSE {}
          IN /\ last'.err = "HandleNotFound"
                   => unknown # <<>> /\ hs[unknown[1]] \in Range(last'.err_handles)
             /\ last'.err = "ColumnNotFound"
                   => /\ last'.err_names # <<>>
                      /\ \A c \in asked :
                            (\E k \in DOMAIN hs : ~HasColumn(Resolve(hs[k]), c))
                            => c \in Range(last'.err_names)]_vars

\* C14: execute_pandas_code whose inputs are known and whose code runs returns
\* either a mapping that has a handle, new to the store, for every requested
\* alias, or an error alone that names the first alias of output_aliases that
\* the code left unbound or bound to something that is no DataFrame; an error
\* result carries no handles and a mapping leaves out no alias.
C14_AllAliasesOrOneError ==
    [][(ToolCall /\ last'.op = "execute_pandas_code")
       => LET outs == last'.outs
              input_handles == [k \in DOMAIN last'.handles |->
                                   <<last'.cols[k], last'.handles[k]>>]
              x == Exec(last'.strs[1],
                        LoadInputs(data_handles, input_handles, 1, [nm \in Names |-> Unbound]))
              bad == Where([k \in DOMAIN outs |->
                              outs[k] \notin Names \/ x.local_vars[outs[k]].kind # "frame"])
          IN /\ last'.kind = "error" => (last'.ret = <<>> /\ last'.keys = <<>>)
             /\ last'.kind = "ok" => (/\ Range(last'.keys) = Range(outs)
                                      /\ Len(last'.ret) = Len(last'.keys))
             /\ ((\A k \in DOMAIN last'.handles : last'.handles[k] \in Tokens) /\ ~x.raised)
                   => IF bad # <<>>
                      THEN /\ last'.kind = "error"
                           /\ last'.err \in {"AliasNotFound", "AliasNotFrame"}
                           /\ last'.err_names = <<outs[bad[1]]>>
                      ELSE /\ last'.kind = "ok"
                           /\ \A k \in DOMAIN last'.ret :
                                 last'.ret[k] \notin Tokens /\ last'.ret[k] \in Tokens']_vars

\* C14, its case reached: the second of two requested aliases is no DataFrame
\* after the code has run, and the call has returned the error naming it
C14_Witness ==
    /\ last.op = "execute_pandas_code"
    /\ last.err = "AliasNotFrame"
    /\ Len(last.outs) = 2
    /\ last.err_names = <<last.outs[2]>>
    /\ last.ret = <<>>

\* C15: drop_columns(h, cols) on a known handle succeeds for every list cols:
\* it returns a new handle whose table has the columns of h's table that cols
\* does not name, in their order and with their cells, and the same rows (index);
\* when cols names no column the shape is that of the input, and dropping every
\* column succeeds too.  The table of h stays as it was.
C15_DropColumns ==
    [][(/\ ToolCall
        /\ last'.op = "drop_columns"
        /\ last'.fault = "none"
        /\ last'.handles[1] \in Tokens)
       => /\ last'.kind = "ok"
          /\ Len(last'.ret) = 1
          /\ last'.ret[1] \notin Tokens
          /\ Tokens' = Tokens \cup {last'.ret[1]}
          /\ ResolveNext(last'.handles[1]) = Resolve(last'.handles[1])
          /\ LET df == Resolve(last'.handles[1])
                 new_df == ResolveNext(last'.ret[1])
                 cols == last'.cols
             IN /\ Range(new_df.columns) = Range(df.columns) \ Range(cols)
                /\ Len(new_df.columns) = Cardinality(Range(new_df.columns))
                /\ \A i \in DOMAIN new_df.columns : \A j \in DOMAIN new_df.columns :
                      i < j => ColPos(df, new_df.columns[i]) < ColPos(df, new_df.columns[j])
                /\ new_df.index = df.index
                /\ \A c \in Range(new_df.columns) :
                      /\ Column(new_df, c) = Column(df, c)
                      /\ new_df.dtypes[ColPos(new_df, c)] = df.dtypes[ColPos(df, c)]
                /\ (Range(cols) \cap Range(df.columns) = {}) => Shape(new_df) = Shape(df)]_vars

\* C15, its case reached: drop_columns has succeeded with a list that names
\* every column, and the new table has the rows and no column
C15_Witness ==
    /\ last.op = "drop_columns"
    /\ last.kind = "ok"
    /\ Range(Resolve(last.handles[1]).columns) \subseteq Range(last.cols)
    /\ Shape(Resolve(last.ret[1])) = <<NumRows(Resolve(last.handles[1])), 0>>
    /\ NumRows(Resolve(last.handles[1])) > 0

\* C16: query_database(name) for a name of the seed catalog returns a handle
\* that the store did not hold (so no handle an earlier call returned) and binds
\* it to a table equal to the seed table of that name; for any other name it
\* returns a table-not-found error and the store is as it was.
C16_QueryDatabase ==
    [][(ToolCall /\ last'.op = "query_database" /\ last'.fault = "none")
       => LET table_name == last'.strs[1]
          IN IF table_name \in {"users", "orders"}
             THEN /\ last'.kind = "ok"
                  /\ Len(last'.ret) = 1
                  /\ last'.ret[1] \notin Tokens
                  /\ Tokens' = Tokens \cup {last'.ret[1]}
                  /\ \A h \in Tokens : ResolveNext(h) = Resolve(h)
                  /\ ResolveNext(last'.ret[1]) = sample_db(impl)[table_name]
             ELSE /\ last'.kind = "error"
                  /\ last'.err = "TableNotFound"
                  /\ Store' = Store]_vars

\* C16, its case reached: a second query_database("users") has returned a
\* handle other than the first one's, and both resolve to the users table
C16_Witness ==
    /\ last.op = "query_database"
    /\ last.kind = "ok"
    /\ last.strs = <<"users">>
    /\ Cardinality(Tokens) = 2
    /\ \A h \in Tokens : Resolve(h) = sample_db(impl)["users"]

\* C17: a group_by that succeeds returns a new handle whose table has exactly
\* one row for every distinct tuple of group-column values that occurs in a row
\* of the input (a missing value being a value like any other), and no other
\* row; each aggregate cell is sum, count (of the non-missing cells), min or max
\* over exactly the rows of that group.  An unknown group or aggregation column,
\* or an unsupported aggregation name, gives an error and leaves the store as it
\* was.
C17_GroupBy ==
    [][(/\ ToolCall
        /\ last'.op = "group_by"
        /\ last'.fault = "none"
        /\ last'.handles[1] \in Tokens)
       => LET df == Resolve(last'.handles[1])
              by == last'.cols
              n == Len(last'.strs) \div 2
              col(k) == last'.strs[2 * k - 1]
              func(k) == last'.strs[2 * k]
              unknown == \/ \E c \in Range(by) : ~HasColumn(df, c)
                         \/ \E k \in 1..n : ~HasColumn(df, col(k))
              unsupported == \E k \in 1..n : func(k) \notin {"sum", "count", "min", "max"}
              same(a, b) == \A k \in 1..Len(by) : CellEq(a[k], b[k])
          IN /\ (unknown \/ unsupported) => (last'.kind = "error" /\ Store' = Store)
             /\ last'.kind = "ok"
                   => LET out == ResolveNext(last'.ret[1])
                          gpos == [k \in 1..Len(by) |-> ColPos(df, by[k])]
                          key(r) == Pick(df.rows[r], gpos)
                          okey(j) == SubSeq(out.rows[j], 1, Len(by))
                          group(j) == {r \in 1..Len(df.rows) : same(key(r), okey(j))}
                          cells(j, k) == {df.rows[r][ColPos(df, col(k))] : r \in group(j)}
                                            \ {NaN}
                          present(j, k) == {r \in group(j) :
                                              df.rows[r][ColPos(df, col(k))] # NaN}
                          got(j, k) == out.rows[j][Len(by) + k]
                      IN /\ last'.ret[1] \notin Tokens
                         /\ \A r \in 1..Len(df.rows) :
                               Cardinality({j \in 1..Len(out.rows) : same(key(r), okey(j))}) = 1
                         /\ \A j \in 1..Len(out.rows) : group(j) # {}
                         /\ \A j \in 1..Len(out.rows) : \A k \in 1..n :
                               CASE func(k) = "count" -> got(j, k).i = Cardinality(present(j, k))
                                 [] func(k) = "sum" ->
                                      got(j, k).i = SumInts([m \in 1..Cardinality(present(j, k)) |->
                                          df.rows[CHOOSE r \in present(j, k) :
                                                     Cardinality({q \in present(j, k) : q < r}) = m - 1]
                                                 [ColPos(df, col(k))]])
                                 [] func(k) = "min" ->
                                      IF cells(j, k) = {} THEN got(j, k) = NaN
                                      ELSE \E v \in cells(j, k) :
                                              /\ CellEq(got(j, k), v)
                                              /\ \A w \in cells(j, k) : ~CellLess(w, v)
                                 [] func(k) = "max" ->
                                      IF cells(j, k) = {} THEN got(j, k) = NaN
                                      ELSE \E v \in cells(j, k) :
                                              /\ CellEq(got(j, k), v)
                                              /\ \A w \in cells(j, k) : ~CellLess(v, w)]_vars

\* C18: a join_dataframes that succeeds binds a new handle to a table whose rows
\* are, as a bag: for inner, one row per pair of a left and a right row with
\* equal keys, made of the cells of both; for left (right), these and one row
\* for every left (right) row without a partner, missing in the columns of the
\* other side; for outer, all of these.  So every row of the kept side appears.
\* The tables of the handles the store held stay as they were.
C18_Join ==
    [][(/\ ToolCall
        /\ last'.op = "join_dataframes"
        /\ last'.kind = "ok")
       => \A df1 \in {Resolve(last'.handles[1])} : \A df2 \in {Resolve(last'.handles[2])} :
          \A out \in {ResolveNext(last'.ret[1])} :
          LET how == last'.strs[2]
              k1 == ColPos(df1, last'.strs[1])
              k2 == ColPos(df2, last'.strs[1])
              rest2 == Where([c \in 1..Len(df2.columns) |-> c # k2])
              partners(r) == {m \in 1..Len(df2.rows) : CellEq(df1.rows[r][k1], df2.rows[m][k2])}
              lone2(m) == \A r \in 1..Len(df1.rows) : m \notin partners(r)
              cells(q) == [c \in 1..Len(df1.columns) |->
                              IF q[1] > 0 THEN df1.rows[q[1]][c]
                              ELSE IF c = k1 THEN df2.rows[q[2]][k2] ELSE NaN]
                          \o [j \in 1..Len(rest2) |->
                                IF q[2] > 0 THEN df2.rows[q[2]][rest2[j]] ELSE NaN]
              same(x, y) == Len(x) = Len(y) /\ \A c \in 1..Len(x) : CellEq(x[c], y[c])
          IN \A wanted \in {{q \in (0..Len(df1.rows)) \X (0..Len(df2.rows)) :
                               \/ q[1] > 0 /\ q[2] \in partners(q[1])
                               \/ /\ how \in {"left", "outer"}
                                  /\ q[1] > 0 /\ q[2] = 0 /\ partners(q[1]) = {}
                               \/ /\ how \in {"right", "outer"}
                                  /\ q[1] = 0 /\ q[2] > 0 /\ lone2(q[2])}} :
             \A row \in {[q \in wanted |-> cells(q)]} :
                /\ how \in valid_joins
                /\ last'.ret[1] \notin Tokens
                /\ Tokens' = Tokens \cup {last'.ret[1]}
                /\ \A h \in Tokens : ResolveNext(h) = Resolve(h)
                /\ Len(out.rows) = Cardinality(wanted)
                /\ \A q \in wanted :
                      Cardinality({j \in 1..Len(out.rows) : same(out.rows[j], row[q])})
                         = Cardinality({x \in wanted : same(row[x], row[q])})]_vars

\* C18, its case reached: a left join of two different tables has succeeded,
\* a left row has more than one partner, and a left row without a partner
\* appears with missing cells in the right table's columns
C18_Witness ==
    /\ last.op = "join_dataframes"
    /\ last.kind = "ok"
    /\ last.strs[2] = "left"
    /\ Resolve(last.handles[1]) # Resolve(last.handles[2])
    /\ LET df1 == Resolve(last.handles[1])
           out == Resolve(last.ret[1])
       IN /\ NumRows(out) > NumRows(df1)
          /\ \E j \in 1..Len(out.rows) :
                \A c \in (Len(df1.columns) + 1)..Len(out.columns) : out.rows[j][c] = NaN

\* C19: after a combine_columns(h, c1, c2, new, sep) that succeeds, the table of
\* h has every column it had, under the same name, at the same place and with
\* the same cells, followed by one more column named new whose cell in every row
\* is str(c1 cell) + sep + str(c2 cell); the rows are the same in number and the
\* columns one more, whatever new is, a name of a column of the table included.
C19_CombineAppends ==
    [][(ToolCall /\ last'.op = "combine_columns" /\ last'.kind = "ok")
       => \A df \in {Resolve(last'.handles[1])} : \A out \in {ResolveNext(last'.handles[1])} :
          LET c1 == ColPos(df, last'.strs[1])
              c2 == ColPos(df, last'.strs[2])
              n == Len(df.columns)
          IN /\ Len(out.columns) = n + 1
             /\ SubSeq(out.columns, 1, n) = df.columns
             /\ out.columns[n + 1] = last'.strs[3]
             /\ Len(out.rows) = Len(df.rows)
             /\ \A r \in 1..Len(df.rows) :
                   /\ SubSeq(out.rows[r], 1, n) = df.rows[r]
                   /\ out.rows[r][n + 1]
                        = S(astype_str(df.rows[r][c1]) \o last'.sep.s
                              \o astype_str(df.rows[r][c2]))]_vars

\* C20: distinct_rows(h, columns) on a known handle returns a new handle whose
\* table has all the columns of h's table and, in the order of the input, exactly
\* the first row for every distinct tuple of values of the columns named (of all
\* columns when none is named, and for remove_duplicates).  When columns names
\* something that is no column, the call returns a column-not-found error that
\* lists the unknown names, and the store is as it was.
C20_DistinctRows ==
    [][(/\ ToolCall
        /\ last'.op \in {"distinct_rows", "remove_duplicates"}
        /\ last'.fault = "none"
        /\ last'.handles[1] \in Tokens)
       => \A df \in {Resolve(last'.handles[1])} :
          LET columns == last'.cols
              unknown == {c \in Range(columns) : ~HasColumn(df, c)}
              subset == IF columns = <<>> THEN df.columns ELSE columns
              key(r) == [k \in 1..Len(subset) |-> df.rows[r][ColPos(df, subset[k])]]
              firsts == Where([r \in 1..Len(df.rows) |->
                                 \A q \in 1..(r - 1) : key(q) # key(r)])
          IN IF unknown # {}
             THEN /\ last'.kind = "error"
                  /\ last'.err = "ColumnNotFound"
                  /\ Range(last'.err_names) = unknown
                  /\ Store' = Store
             ELSE /\ last'.kind = "ok"
                  /\ last'.ret[1] \notin Tokens
                  /\ \A out \in {ResolveNext(last'.ret[1])} :
                        /\ out.columns = df.columns
                        /\ out.rows = Pick(df.rows, firsts)]_vars

\* C21: a tool call other than combine_columns leaves every token the store
\* held bound to the table it was bound to, whatever the code of
\* execute_pandas_code does to the variables it is given; a combine_columns
\* changes the table of the one handle it is called on, so the table of a handle
\* a result was derived from stays as it was when the result is combined.
C21_InputsReadOnly ==
    [][ToolCall
       => \A h \in Tokens :
             (last'.op # "combine_columns" \/ h \notin Range(last'.handles))
                => (h \in Tokens' /\ Store'[h] = Store[h])]_vars

\* C21, its case reached: execute_pandas_code has run code that changes its
\* input variable in place, the result has a column less than the input, and
\* the input's token is still bound to the table with all its columns
C21_Witness ==
    /\ last.op = "execute_pandas_code"
    /\ last.kind = "ok"
    /\ last.strs = <<"df.drop(columns=['city'], inplace=True); a = df">>
    /\ last.handles # <<>>
    /\ HasColumn(Resolve(last.handles[1]), "city")
    /\ ~HasColumn(Resolve(last.ret[1]), "city")

\* C22: get_schema(h) on a known handle succeeds and binds a new handle to a
\* table of the columns column, dtype, num_rows with exactly one row per column
\* of h's table, in column order, holding the column's name, its dtype and the
\* number of rows of h's table; so also for a table without rows and for a table
\* without columns.  The table of h stays as it was.
C22_GetSchema ==
    [][(/\ ToolCall
        /\ last'.op = "get_schema"
        /\ last'.fault = "none"
        /\ last'.handles[1] \in Tokens)
       => /\ last'.kind = "ok"
          /\ Len(last'.ret) = 1
          /\ last'.ret[1] \notin Tokens
          /\ Tokens' = Tokens \cup {last'.ret[1]}
          /\ \A df \in {Resolve(last'.handles[1])} : \A out \in {ResolveNext(last'.ret[1])} :
                /\ ResolveNext(last'.handles[1]) = df
                /\ out.columns = <<"column", "dtype", "num_rows">>
                /\ Len(out.rows) = Len(df.columns)
                /\ \A k \in 1..Len(df.columns) :
                      out.rows[k] = <<S(df.columns[k]), S(df.dtypes[k]), I(Len(df.rows))>>]_vars

\* C22, its case reached: get_schema has succeeded on a table that has rows
\* and no column, or on a table that has columns and no row
C22_Witness ==
    /\ last.op = "get_schema"
    /\ last.kind = "ok"
    /\ \/ /\ Shape(Resolve(last.handles[1])) = <<6, 0>>
          /\ Shape(Resolve(last.ret[1])) = <<0, 3>>
       \/ /\ Shape(Resolve(last.handles[1])) = <<0, 3>>
          /\ Shape(Resolve(last.ret[1])) = <<3, 3>>
          /\ \A k \in 1..3 : Resolve(last.ret[1]).rows[k][3] = I(0)

\* C23: a row preview (get_top_n_rows, materialize_dataframe) of a known handle
\* that is asked for n <= 0 rows returns what it returns for n = 5 and no
\* error; a preview of the first rows shows at most 1000 rows whatever n is;
\* materialize_dataframe returns an error for a format it does not know.
C23_Preview ==
    [][(/\ ToolCall
        /\ last'.op \in {"get_top_n_rows", "materialize_dataframe"}
        /\ last'.handles[1] \in Tokens)
       => \A df \in {Resolve(last'.handles[1])} :
          LET format == IF last'.op = "get_top_n_rows" THEN "head_string" ELSE last'.strs[1]
          IN /\ (last'.n <= 0 /\ format = "head_string")
                   => (last'.kind = "ok" /\ last'.payload = HeadFrame(df, 5))
             /\ (last'.n <= 0 /\ format = "tail_string")
                   => (last'.kind = "ok" /\ last'.payload = TailFrame(df, 5))
             /\ (last'.kind = "ok" /\ format = "head_string")
                   => /\ NumRows(last'.payload) <= 1000
                      /\ last'.n > 0 => last'.payload = HeadFrame(df, IF last'.n > 1000 THEN 1000
                                                                       ELSE last'.n)
             /\ format \notin {"head_string", "tail_string", "sample_string", "full_string",
                               "json_records", "json_split", "csv"}
                   => last'.kind = "error"
             /\ Store' = Store]_vars

\* C24: the seed catalog is never modified: in every reachable state, after
\* combine_columns on handles of query_database and after execute_pandas_code
\* changing its inputs too, every table of the catalog has the columns and rows
\* it had when the program started, and so a query_database returns now what it
\* returned the first time.
C24_SeedCatalogKept ==
    /\ DOMAIN catalog = DOMAIN sample_db(impl)
    /\ \A t \in DOMAIN catalog : catalog[t].df = sample_db(impl)[t]

\* C24, its case reached: a handle of query_database has been changed by
\* combine_columns, and a later query_database of the same table has returned
\* a handle of the table as it was at the start
C24_Witness ==
    /\ last.op = "query_database"
    /\ last.kind = "ok"
    /\ combines > 0
    /\ Resolve(last.ret[1]) = sample_db(impl)[last.strs[1]]
    /\ \E g \in Tokens \ {last.ret[1]} :
          /\ Resolve(g) # Resolve(last.ret[1])
          /\ Resolve(g).index = Resolve(last.ret[1]).index
          /\ Range(Resolve(last.ret[1]).columns) \subseteq Range(Resolve(g).columns)

\* C25: get_shape, get_head, get_top_n_rows, materialize_dataframe and
\* get_db_tables leave the store as it was, whether they return their payload or
\* an error: the same tokens, each bound to the same table, and no token minted.
C25_ReadOnlyTools ==
    [][(/\ ToolCall
        /\ last'.op \in {"get_shape", "get_head", "get_top_n_rows",
                         "materialize_dataframe", "get_db_tables"})
       => (/\ Store' = Store
           /\ uuids' = uuids
           /\ last'.ret = <<>>
           /\ last'.saved = <<>>)]_vars

\* C25, its case reached: get_top_n_rows has shown fewer rows than the table
\* of its handle has, and the handle still resolves to the whole table
C25_Witness ==
    /\ last.op = "get_top_n_rows"
    /\ last.kind = "ok"
    /\ NumRows(last.payload) < NumRows(Resolve(last.handles[1]))
    /\ NumRows(last.payload) = last.n

\* C26: a write save_handle(h, T) of the server inserts or replaces on the key
\* h: after it the store holds the tokens it held and h, h reads back as T
\* whether it was bound before or not (one record per token), and every other
\* token is bound to what it was bound to.
C26_SaveHandle ==
    [][(ToolCall /\ impl = "server" /\ last'.saved # <<>>)
       => \A rec \in {last'.saved[1]} :
             /\ Len(last'.saved) = 1
             /\ DOMAIN handles_db' = DOMAIN handles_db \cup {rec.handle}
             /\ load_handle(handles_db', rec.handle) = [found |-> TRUE, df |-> rec.df]
             /\ \A g \in DOMAIN handles_db \ {rec.handle} : handles_db'[g] = handles_db[g]]_vars

\* C26, its case reached: the server has written a table under a token that
\* was bound to another table, one more token is bound, and the store holds the
\* new table under the first and the other token's table as it was
C26_Witness ==
    /\ impl = "server"
    /\ last.op = "combine_columns"
    /\ last.saved # <<>>
    /\ Resolve(last.saved[1].handle) = last.saved[1].df
    /\ Resolve(last.saved[1].handle) \notin {sample_db(impl)[t] : t \in DOMAIN sample_db(impl)}
    /\ \E g \in Tokens \ {last.saved[1].handle} :
          Resolve(g) \in {sample_db(impl)[t] : t \in DOMAIN sample_db(impl)}

====
